---- MODULE Spec2Model ----
(***************************************************************************)
(* Oh My CV (Obsidian plugin): the template repository kept by             *)
(* SettingsService, the PDF export path of ExportService / CVEditorView /   *)
(* PDFExportOptionsModal, the two markup transformers (the preview's       *)
(* MarkdownService and the export's processMarkdown), and the documents     *)
(* StorageService keeps in the vault, with the editing session that saves   *)
(* them.                                                                    *)
(*                                                                         *)
(* JavaScript objects are functions from property names to values; an      *)
(* absent property (and a property whose value is undefined) is a name     *)
(* outside the DOMAIN.  Object spread {...a, ...b} is  b @@ a.             *)
(* Array indices are 1-based here; findIndex's -1 is 0.                    *)
(* Non-integer numbers are kept in hundredths (spacing 1.15 is 115).       *)
(***************************************************************************)
EXTENDS Integers, Sequences, FiniteSets, TLC

VARIABLES
  DEFAULT_TEMPLATES,  \* core/templates.ts: the builtin template list
  DEFAULT_SETTINGS,   \* core/constants.ts: the shared default settings object
  settings,           \* SettingsService.settings
  sharedTemplates,    \* settings.templates is the very array DEFAULT_SETTINGS.templates
  pendingSaves,       \* plugin.saveData calls whose promise has not settled yet
  savedData,          \* the data of the latest plugin.saveData call: the content of
                      \* the data file once no call is pending
  now,                \* Date.now()
  returned,           \* the last call of the repository and what it returned
  dom,                \* the DOM elements alive: element id -> tree
  currentDocument,    \* CVEditorView.currentDocument
  rasterizing,        \* the html2pdf().save() promises that have not settled yet
  exportResult,       \* the last settled exportToPDF call and what it returned
  lastExportOptions,  \* plugin.data.lastExportOptions
  rendering,          \* the MarkdownRenderer.renderMarkdown calls that have not settled yet
  vault,              \* the vault's files: path -> text
  vaultCalls,         \* the storage operations waiting for the vault, oldest first
  editorValue,        \* CVEditorView.editorEl.value
  unsavedChanges      \* CVEditorView.unsavedChanges

repoVars == <<DEFAULT_TEMPLATES, DEFAULT_SETTINGS, settings, sharedTemplates,
              pendingSaves, savedData, now, returned>>

exportVars == <<dom, currentDocument, rasterizing, exportResult, lastExportOptions,
                rendering>>

storageVars == <<vault, vaultCalls, editorValue, unsavedChanges>>

vars == <<DEFAULT_TEMPLATES, DEFAULT_SETTINGS, settings, sharedTemplates,
          pendingSaves, savedData, now, returned, dom, currentDocument, rasterizing,
          exportResult, lastExportOptions, rendering, storageVars>>

----------------------------------------------------------------------------
(* Bounds *)

MaxTemplates == 3     \* longest user template list explored
MaxPending == 2       \* most saveData calls in flight at once
MaxClock == 1         \* last clock tick explored
MaxInFlight == 2      \* most rasterizations pending at once
MaxRenders == 2       \* most renderer calls pending at once
MaxCalls == 1         \* most storage operations waiting for the vault at once

----------------------------------------------------------------------------
(* JavaScript values *)

Undefined == [type |-> "undefined"]

EmptyObject == << >>

\* {...a, ...b}
Spread(a, b) == b @@ a

\* Array.prototype.findIndex(t => t.id === id); 0 when there is none
FindIndexById(list, id) ==
  IF \E i \in 1..Len(list) : list[i].id = id
    THEN CHOOSE i \in 1..Len(list) :
           /\ list[i].id = id
           /\ \A j \in 1..(i - 1) : list[j].id # id
    ELSE 0

\* Array.prototype.find(t => t.id === id)
FindById(list, id) ==
  IF FindIndexById(list, id) = 0 THEN Undefined ELSE list[FindIndexById(list, id)]

\* Array.prototype.filter(t => t.id !== id)
FilterOutId(list, id) == SelectSeq(list, LAMBDA t : t.id # id)

----------------------------------------------------------------------------
(* core/templates.ts *)

Margins(n) == [top |-> n, right |-> n, bottom |-> n, left |-> n]

DEFAULT_THEMES ==
  [classic  |-> [primaryColor |-> "#4051b5", secondaryColor |-> "#4051b580",
                 textColor |-> "#333333", linkColor |-> "#4051b5",
                 backgroundColor |-> "#ffffff", headingFont |-> "Roboto",
                 bodyFont |-> "Roboto", fontSize |-> "11pt", lineHeight |-> "1.5"],
   modern   |-> [primaryColor |-> "#2d3748", secondaryColor |-> "#4a5568",
                 accentColor |-> "#3182ce", textColor |-> "#1a202c",
                 linkColor |-> "#3182ce", backgroundColor |-> "#ffffff",
                 headingFont |-> "Inter", bodyFont |-> "Inter",
                 fontSize |-> "11pt", lineHeight |-> "1.6"],
   minimal  |-> [primaryColor |-> "#000000", secondaryColor |-> "#555555",
                 textColor |-> "#000000", linkColor |-> "#000000",
                 backgroundColor |-> "#ffffff", headingFont |-> "Inter",
                 bodyFont |-> "Inter", fontSize |-> "10.5pt", lineHeight |-> "1.4"],
   academic |-> [primaryColor |-> "#861f41", secondaryColor |-> "#861f4180",
                 textColor |-> "#333333", linkColor |-> "#861f41",
                 backgroundColor |-> "#ffffff", headingFont |-> "Merriweather",
                 bodyFont |-> "Source Sans Pro", fontSize |-> "11pt",
                 lineHeight |-> "1.5"],
   creative |-> [primaryColor |-> "#e53e3e", secondaryColor |-> "#e53e3e80",
                 accentColor |-> "#38a169", textColor |-> "#2d3748",
                 linkColor |-> "#e53e3e", backgroundColor |-> "#ffffff",
                 headingFont |-> "Poppins", bodyFont |-> "Nunito",
                 fontSize |-> "11pt", lineHeight |-> "1.6"]]

CLASSIC_PROFESSIONAL_TEMPLATE ==
  [id |-> "classic-professional", name |-> "Classic Professional",
   description |-> "A clean, traditional CV template",
   category |-> "Professional", tags |-> <<"classic", "formal", "traditional">>,
   style |-> [theme |-> DEFAULT_THEMES.classic, margins |-> Margins(20), spacing |-> 115],
   content |-> "# Your Name"]

MODERN_MINIMAL_TEMPLATE ==
  [id |-> "modern-minimal", name |-> "Modern Minimal",
   description |-> "A sleek, minimalist template",
   category |-> "Professional", tags |-> <<"minimal", "modern", "clean">>,
   style |-> [theme |-> DEFAULT_THEMES.minimal, margins |-> Margins(15), spacing |-> 120],
   content |-> "# Your Name"]

ACADEMIC_CV_TEMPLATE ==
  [id |-> "academic", name |-> "Academic CV",
   description |-> "Comprehensive template for academic positions",
   category |-> "Academic", tags |-> <<"academic", "research", "formal">>,
   style |-> [theme |-> DEFAULT_THEMES.academic, margins |-> Margins(25), spacing |-> 120],
   content |-> "# Your Name, Ph.D."]

CREATIVE_PROFESSIONAL_TEMPLATE ==
  [id |-> "creative-professional", name |-> "Creative Professional",
   description |-> "A modern template with visual flair",
   category |-> "Creative", tags |-> <<"creative", "modern", "colorful">>,
   style |-> [theme |-> DEFAULT_THEMES.creative, margins |-> Margins(20), spacing |-> 130,
              customCSS |-> ".oh-my-cv-skill-level"],
   content |-> "# Your Name"]

BuiltinTemplates ==
  <<CLASSIC_PROFESSIONAL_TEMPLATE, MODERN_MINIMAL_TEMPLATE,
    ACADEMIC_CV_TEMPLATE, CREATIVE_PROFESSIONAL_TEMPLATE>>

\* templates.ts getTemplateById: DEFAULT_TEMPLATES.find(t => t.id === id)
getTemplateById(id) == FindById(DEFAULT_TEMPLATES, id)

----------------------------------------------------------------------------
(* core/constants.ts *)

DEFAULT_TEMPLATE_STYLES ==
  [default  |-> [theme |-> [primaryColor |-> "#4051b5", textColor |-> "#333333",
                            linkColor |-> "#4051b5", backgroundColor |-> "#ffffff",
                            bodyFont |-> "Roboto, sans-serif", fontSize |-> "11pt",
                            lineHeight |-> "1.5"],
                 margins |-> Margins(20), spacing |-> 115, customCSS |-> ""],
   academic |-> [theme |-> [primaryColor |-> "#861f41", textColor |-> "#333333",
                            linkColor |-> "#861f41", backgroundColor |-> "#ffffff",
                            bodyFont |-> "Garamond, serif", fontSize |-> "11pt",
                            lineHeight |-> "1.5"],
                 margins |-> [top |-> 25, right |-> 20, bottom |-> 25, left |-> 20],
                 spacing |-> 120, customCSS |-> ""],
   minimal  |-> [theme |-> [primaryColor |-> "#000000", textColor |-> "#000000",
                            linkColor |-> "#000000", backgroundColor |-> "#ffffff",
                            bodyFont |-> "Inter, sans-serif", fontSize |-> "10.5pt",
                            lineHeight |-> "1.4"],
                 margins |-> Margins(15), spacing |-> 110, customCSS |-> ""]]

getDefaultTemplates ==
  << [id |-> "default", name |-> "Default",
      description |-> "A clean, professional CV template",
      style |-> DEFAULT_TEMPLATE_STYLES.default, content |-> "title: Professional CV"],
     [id |-> "academic", name |-> "Academic CV",
      description |-> "A formal template designed for academic and research positions.",
      style |-> DEFAULT_TEMPLATE_STYLES.academic, content |-> "title: Academic CV"],
     [id |-> "minimal", name |-> "Minimal",
      description |-> "A minimalist template",
      style |-> DEFAULT_TEMPLATE_STYLES.minimal, content |-> "title: Minimal CV"] >>

\* DEFAULT_SETTINGS as the module exports it; defaultLineHeight is kept as text
InitialDefaultSettings ==
  [defaultPageSize |-> "A4",
   defaultMargins |-> Margins(20),
   defaultThemeColor |-> "#4051b5",
   defaultFontFamily |-> "Inter, sans-serif",
   defaultFontSize |-> 10,
   defaultLineHeight |-> "1.5",
   enableCustomCss |-> FALSE,
   defaultCustomCss |-> "",
   autoCasing |-> TRUE,
   texSupport |-> TRUE,
   showPageBreaks |-> TRUE,
   iconSupport |-> TRUE,
   googleFontsApiKey |-> "",
   recentlyUsedFonts |-> <<"Inter", "Roboto", "Open Sans", "Lato", "Montserrat">>,
   templates |-> getDefaultTemplates]

----------------------------------------------------------------------------
(* services/settings-service.ts: SettingsService *)

\* what plugin.loadData() resolves to: nothing stored (null), or a stored object
StoredDataInputs == { EmptyObject, [templates |-> << >>] }

\* templates handed to addTemplate
TemplateInput(id, name) ==
  [id |-> id, name |-> name, description |-> "A custom user template",
   content |-> "# User Template Content", category |-> "Custom", tags |-> <<"test">>,
   style |-> [theme |-> [primaryColor |-> "#000000", textColor |-> "#333333",
                         backgroundColor |-> "#ffffff"],
              margins |-> Margins(20), spacing |-> 120]]

AddInputs ==
  { TemplateInput(id, "User Template 1") : id \in {"academic", "custom-template"} }

\* ids handed to getTemplateById and deleteTemplate
IdInputs ==
  {"classic-professional", "academic", "default", "custom-template", "user-template-0",
   "non-existent"}

\* ids handed to updateTemplate
UpdateIdInputs == {"classic-professional", "default", "non-existent"}

\* Partial<CVTemplate> values handed to updateTemplate
PartialInputs ==
  { [name |-> "Updated Name", content |-> "Updated content"],
    [id |-> "academic"] }

CustomStyle ==
  [theme |-> [primaryColor |-> "#FF0000", textColor |-> "#000000",
              backgroundColor |-> "#FFFFFF"],
   margins |-> Margins(30), spacing |-> 150]

StyleInputs == { Undefined, CustomStyle }

\* this.settings.templates[...] = ... / push(...): the array is changed in place,
\* so DEFAULT_SETTINGS.templates changes with it while it is the same array
SetTemplatesInPlace(list) ==
  /\ settings' = [settings EXCEPT !.templates = list]
  /\ DEFAULT_SETTINGS' = IF sharedTemplates
                           THEN [DEFAULT_SETTINGS EXCEPT !.templates = list]
                           ELSE DEFAULT_SETTINGS
  /\ UNCHANGED sharedTemplates

\* await this.plugin.saveData(this.settings)
saveSettings ==
  /\ pendingSaves' = pendingSaves + 1
  /\ savedData' = settings'

loadSettings(data) ==
  /\ settings' = Spread(DEFAULT_SETTINGS, data)
  /\ sharedTemplates' = ("templates" \notin DOMAIN data)
  /\ returned' = [op |-> "loadSettings"]
  /\ UNCHANGED <<DEFAULT_TEMPLATES, DEFAULT_SETTINGS, pendingSaves, savedData, now, exportVars, storageVars>>

\* getTemplates(): builtin entries followed by user entries
getTemplates == DEFAULT_TEMPLATES \o settings.templates

getUserTemplates == settings.templates

\* the value SettingsService.getTemplateById(id) returns
SettingsService_getTemplateById_userFirst(id) ==
  IF FindById(settings.templates, id) # Undefined
    THEN FindById(settings.templates, id)
    ELSE getTemplateById(id)

SettingsService_getTemplateById(id) ==
  IF getTemplateById(id) # Undefined
    THEN getTemplateById(id)
    ELSE FindById(settings.templates, id)

lookupTemplate(id) ==
  /\ returned' = [op |-> "getTemplateById", id |-> id,
                  value |-> SettingsService_getTemplateById(id)]
  /\ UNCHANGED <<DEFAULT_TEMPLATES, DEFAULT_SETTINGS, settings, sharedTemplates,
                 pendingSaves, savedData, now, exportVars, storageVars>>

\* the user list addTemplate leaves behind
AddedTemplates(list, template) ==
  IF FindIndexById(list, template.id) > 0
    THEN [list EXCEPT ![FindIndexById(list, template.id)] = template]
    ELSE Append(list, template)

addTemplate(template) ==
  /\ pendingSaves < MaxPending
  /\ Len(AddedTemplates(settings.templates, template)) <= MaxTemplates
  /\ SetTemplatesInPlace(AddedTemplates(settings.templates, template))
  /\ saveSettings
  /\ returned' = [op |-> "addTemplate"]
  /\ UNCHANGED <<DEFAULT_TEMPLATES, now, exportVars, storageVars>>

deleteTemplate(id) ==
  LET filtered == FilterOutId(settings.templates, id)
      success == Len(filtered) < Len(settings.templates)
  IN /\ success => pendingSaves < MaxPending
     /\ settings' = [settings EXCEPT !.templates = filtered]
     /\ sharedTemplates' = FALSE
     /\ IF success THEN saveSettings ELSE UNCHANGED <<pendingSaves, savedData>>
     /\ returned' = [op |-> "deleteTemplate", value |-> success]
     /\ UNCHANGED <<DEFAULT_TEMPLATES, DEFAULT_SETTINGS, now, exportVars, storageVars>>

\* `user-template-${Date.now()}`
NewTemplateId(clock) == "user-template-" \o ToString(clock)

\* the template createTemplateFromCurrent builds
CreatedTemplate(name, description, content, style) ==
  [id |-> NewTemplateId(now), name |-> name, description |-> description,
   content |-> content,
   style |-> IF style # Undefined
               THEN style
               ELSE [theme |-> [primaryColor |-> settings.defaultThemeColor,
                                textColor |-> "#333333",
                                backgroundColor |-> "#ffffff"],
                     margins |-> settings.defaultMargins,
                     spacing |-> 115],
   category |-> "Custom", tags |-> <<"user-created">>]

createTemplateFromCurrent(name, description, content, style) ==
  LET template == CreatedTemplate(name, description, content, style)
  IN /\ pendingSaves < MaxPending
     /\ Len(AddedTemplates(settings.templates, template)) <= MaxTemplates
     /\ SetTemplatesInPlace(AddedTemplates(settings.templates, template))
     /\ saveSettings
     /\ returned' = [op |-> "createTemplateFromCurrent", value |-> template]
     /\ UNCHANGED <<DEFAULT_TEMPLATES, now, exportVars, storageVars>>

\* the user list updateTemplate leaves behind
UpdatedTemplates_assignPartial(list, id, partial) ==
  IF FindIndexById(list, id) > 0
    THEN [list EXCEPT ![FindIndexById(list, id)] = Spread([id |-> id], partial)]
    ELSE list

UpdatedTemplates(list, id, partial) ==
  IF FindIndexById(list, id) > 0
    THEN [list EXCEPT ![FindIndexById(list, id)] =
                         Spread(list[FindIndexById(list, id)], partial)]
    ELSE list

updateTemplate(id, partial) ==
  LET index == FindIndexById(settings.templates, id)
  IN /\ index > 0 => pendingSaves < MaxPending
     /\ IF index > 0
          THEN /\ SetTemplatesInPlace(UpdatedTemplates(settings.templates, id, partial))
               /\ saveSettings
          ELSE UNCHANGED <<settings, DEFAULT_SETTINGS, sharedTemplates, pendingSaves,
                          savedData>>
     /\ returned' = [op |-> "updateTemplate"]
     /\ UNCHANGED <<DEFAULT_TEMPLATES, now, exportVars, storageVars>>

\* a saveData promise settles
saveDataSettled ==
  /\ pendingSaves > 0
  /\ pendingSaves' = pendingSaves - 1
  /\ UNCHANGED <<DEFAULT_TEMPLATES, DEFAULT_SETTINGS, settings, sharedTemplates,
                 savedData, now, returned, exportVars, storageVars>>

\* the clock advances to the next millisecond
Tick ==
  /\ now < MaxClock
  /\ now' = now + 1
  /\ UNCHANGED <<DEFAULT_TEMPLATES, DEFAULT_SETTINGS, settings, sharedTemplates,
                 pendingSaves, savedData, returned, exportVars, storageVars>>

----------------------------------------------------------------------------
(* DOM elements.  A node is a record of its tag, class list, inline style   *)
(* (property -> value), attributes, text and child nodes.                    *)

Null == [type |-> "null"]

NoStyle == << >>

Node(tag, classes, attrs, text, kids) ==
  [tag |-> tag, classes |-> classes, style |-> NoStyle, attrs |-> attrs,
   text |-> text, kids |-> kids]

\* String.prototype.startsWith
StartsWith(s, prefix) ==
  /\ Len(s) >= Len(prefix)
  /\ SubSeq(s, 1, Len(prefix)) = prefix

\* el.style.setProperty(prop, value) / el.style[prop] = value
SetStyle(node, prop, value) ==
  [node EXCEPT !.style = (prop :> value) @@ node.style]

\* el.style[prop] = value where value may be undefined (<< >>): the CSSOM drops
\* the assignment of an invalid value and keeps what was there
SetStyleMaybe(node, prop, maybe) ==
  IF maybe = << >> THEN node ELSE SetStyle(node, prop, maybe[1])

\* obj[key] || fallback, for string properties ('' is falsy)
StrOr(obj, key, fallback) ==
  IF key \in DOMAIN obj /\ obj[key] # "" THEN obj[key] ELSE fallback

\* obj[key] || fallback, for number properties (0 is falsy)
NumOr(obj, key, fallback) ==
  IF key \in DOMAIN obj /\ obj[key] # 0 THEN obj[key] ELSE fallback

\* obj[key] as an optional value: << >> when undefined or falsy, <<v>> otherwise
StrMaybe(obj, key) ==
  IF key \in DOMAIN obj /\ obj[key] # "" THEN <<obj[key]>> ELSE << >>

previewEl == 0

\* the element ids export clones can take
CloneIds == 1..MaxInFlight

----------------------------------------------------------------------------
(* JavaScript strings and the regular expressions of the two transformers.  *)
(* Positions are 1-based; a search that finds nothing gives 0.  A value     *)
(* that is used several times is bound by a quantifier over a one-element   *)
(* set (CHOOSE r \in { f(v) : v \in {e} } : TRUE is f(e)), so that it is    *)
(* computed once.                                                          *)

\* s.charAt(i - 1)
Ch(s, i) == IF i \in 1..Len(s) THEN SubSeq(s, i, i) ELSE ""

\* s.startsWith(lit, i - 1)
MatchesAt(s, i, lit) ==
  /\ i >= 1
  /\ i + Len(lit) - 1 <= Len(s)
  /\ SubSeq(s, i, i + Len(lit) - 1) = lit

Least(S) == CHOOSE x \in S : \A y \in S : x <= y

\* s.indexOf(lit, i - 1) + 1
IndexOf(s, lit, i) ==
  LET P == { p \in i..Len(s) : MatchesAt(s, p, lit) }
  IN IF P = {} THEN 0 ELSE Least(P)

\* a line terminator lies in s[a..b]; the regular expressions' . stops there
HasNewline(s, a, b) == \E k \in a..b : Ch(s, k) = "\n"

\* last position of the line that position i lies on
EndOfLine(s, i) ==
  LET n == IndexOf(s, "\n", i) IN IF n = 0 THEN Len(s) ELSE n - 1

\* where a group that starts at g ends, as the position of the closing
\* literal, 0 when the group cannot match there.
\*   lazyDot:  (.*?) close    shortest run without a line terminator
\*   else:     ([^}]+) close  longest non-empty run without the closing brace
GroupEnd(s, g, close, lazyDot) ==
  LET q == IndexOf(s, close, g)
  IN IF q = 0 THEN 0
     ELSE IF lazyDot THEN (IF HasNewline(s, g, q - 1) THEN 0 ELSE q)
     ELSE (IF q = g THEN 0 ELSE q)

\* where the first group of  {g1}{g2}  ends, 0 when the two groups cannot match
FirstGroupEnd(s, g, lazyDot) ==
  IF lazyDot
    THEN LET Q == { q \in g..Len(s) :
                      /\ Ch(s, q) = "}" /\ Ch(s, q + 1) = "{"
                      /\ ~HasNewline(s, g, q - 1)
                      /\ GroupEnd(s, q + 2, "}", TRUE) # 0 }
         IN IF Q = {} THEN 0 ELSE Least(Q)
    ELSE LET q == GroupEnd(s, g, "}", FALSE)
         IN IF q # 0 /\ Ch(s, q + 1) = "{" /\ GroupEnd(s, q + 2, "}", FALSE) # 0
              THEN q ELSE 0

NoMatch == [start |-> 0, end |-> 0, groups |-> << >>]

\* the match of a pattern that starts at position p, NoMatch when there is none.
\* A pattern is one of
\*   [kind |-> "literal", lit]                       /lit/
\*   [kind |-> "line", lit, anchored]                /^lit(.*$)/m or /lit(.*$)/m
\*   [kind |-> "group", opens, close, lazyDot]       /open(.*?)close/ or /open([^}]+)close/
\*   [kind |-> "groups", opens, lazyDot]             /open(g1)\}\{(g2)\}/
\* where opens is the set of strings the part before the first group matches
\* (a character class in it makes it more than one string).
MatchAt(pat, s, p) ==
  CASE pat.kind = "literal" ->
         IF MatchesAt(s, p, pat.lit)
           THEN [start |-> p, end |-> p + Len(pat.lit), groups |-> << >>]
           ELSE NoMatch
    [] pat.kind = "line" ->
         IF MatchesAt(s, p, pat.lit) /\ (pat.anchored => (p = 1 \/ Ch(s, p - 1) = "\n"))
           THEN LET e == EndOfLine(s, p + Len(pat.lit))
                IN [start |-> p, end |-> e + 1,
                    groups |-> <<SubSeq(s, p + Len(pat.lit), e)>>]
           ELSE NoMatch
    [] pat.kind = "group" ->
         IF \E o \in pat.opens : MatchesAt(s, p, o)
           THEN LET o == CHOOSE o \in pat.opens : MatchesAt(s, p, o)
                    g == p + Len(o)
                    q == GroupEnd(s, g, pat.close, pat.lazyDot)
                IN IF q = 0 THEN NoMatch
                   ELSE [start |-> p, end |-> q + Len(pat.close),
                         groups |-> <<SubSeq(s, g, q - 1)>>]
           ELSE NoMatch
    [] pat.kind = "groups" ->
         IF \E o \in pat.opens : MatchesAt(s, p, o)
           THEN LET o == CHOOSE o \in pat.opens : MatchesAt(s, p, o)
                    g == p + Len(o)
                    q1 == FirstGroupEnd(s, g, pat.lazyDot)
                    q2 == GroupEnd(s, q1 + 2, "}", pat.lazyDot)
                IN IF q1 = 0 THEN NoMatch
                   ELSE [start |-> p, end |-> q2 + 1,
                         groups |-> <<SubSeq(s, g, q1 - 1), SubSeq(s, q1 + 2, q2 - 1)>>]
           ELSE NoMatch

\* RegExp.prototype.exec with lastIndex = i - 1: the leftmost match at or after i
FindMatch(pat, s, i) ==
  LET P == { p \in i..Len(s) : MatchAt(pat, s, p).start # 0 }
  IN IF P = {} THEN NoMatch ELSE MatchAt(pat, s, Least(P))

RECURSIVE Expand(_, _)
\* a replacement string as its literal parts: <<a, b, c>> is  a$1b$2c
Expand(rep, groups) ==
  IF Len(rep) = 1 THEN rep[1]
  ELSE rep[1] \o groups[1] \o Expand(Tail(rep), Tail(groups))

RECURSIVE ReplaceFrom(_, _, _, _)
ReplaceFrom(s, i, pat, rep) ==
  CHOOSE result \in
    { IF m.start = 0 THEN SubSeq(s, i, Len(s))
      ELSE SubSeq(s, i, m.start - 1) \o Expand(rep, m.groups)
             \o ReplaceFrom(s, m.end, pat, rep) :
      m \in {FindMatch(pat, s, i)} } : TRUE

\* String.prototype.replace(/pat/g, rep)
ReplaceAll(s, pat, rep) ==
  CHOOSE result \in { ReplaceFrom(subject, 1, pat, rep) : subject \in {s} } : TRUE

RECURSIVE ReplaceEach(_, _)
\* s = s.replace(pattern, replacement) for each <<pattern, replacement>> in turn
ReplaceEach(s, rules) ==
  IF rules = << >> THEN s
  ELSE CHOOSE result \in
         { ReplaceEach(replaced, Tail(rules)) :
           replaced \in {ReplaceAll(s, Head(rules)[1], Head(rules)[2])} } : TRUE

Literal(lit) == [kind |-> "literal", lit |-> lit]

Line(lit, anchored) == [kind |-> "line", lit |-> lit, anchored |-> anchored]

Group(opens, close, lazyDot) ==
  [kind |-> "group", opens |-> opens, close |-> close, lazyDot |-> lazyDot]

Groups(opens, lazyDot) == [kind |-> "groups", opens |-> opens, lazyDot |-> lazyDot]

----------------------------------------------------------------------------
(* core/constants.ts: CASING_RULES and                                      *)
(* services/markdown-service.ts: MarkdownService.applyCasingRules            *)

\* Object.entries(CASING_RULES): <<incorrect, correct>> in insertion order
\* a table whose rule for nodejs leaves the capital to the node.js rule,
\* which has run by then
CASING_RULES_chained ==
  << <<"node.js", "Node.js">>,
     <<"nodejs", "node.js">> >>

CASING_RULES ==
  <<
     <<"github", "GitHub">>,
     <<"linkedin", "LinkedIn">>,
     <<"javascript", "JavaScript">>,
     <<"typescript", "TypeScript">>,
     <<"react.js", "React.js">>,
     <<"vue.js", "Vue.js">>,
     <<"node.js", "Node.js">>,
     <<"html5", "HTML5">>,
     <<"css3", "CSS3">>,
     <<"api", "API">>,
     <<"apis", "APIs">>,
     <<"ui", "UI">>,
     <<"ux", "UX">>,
     <<"cli", "CLI">>,
     <<"sql", "SQL">>,
     <<"nosql", "NoSQL">>,
     <<"php", "PHP">>,
     <<"graphql", "GraphQL">>,
     <<"restful", "RESTful">>,
     <<"oauth", "OAuth">>,
     <<"sass", "Sass">>,
     <<"scss", "SCSS">>,
     <<"redux", "Redux">>,
     <<"webpack", "Webpack">>,
     <<"tailwindcss", "Tailwind CSS">>,
     <<"bootstrap", "Bootstrap">>,
     <<"json", "JSON">>,
     <<"saas", "SaaS">>,
     <<"paas", "PaaS">>,
     <<"iaas", "IaaS">>,
     <<"iot", "IoT">>,
     <<"ai", "AI">>,
     <<"ml", "ML">>,
     <<"ar", "AR">>,
     <<"vr", "VR">>,
     <<"aws", "AWS">>,
     <<"gcp", "GCP">>,
     <<"azure", "Azure">>,
     <<"git", "Git">>,
     <<"npm", "npm">>,
     <<"mysql", "MySQL">>,
     <<"css", "CSS">>,
     <<"html", "HTML">>,
     <<"angularjs", "AngularJS">>,
     <<"angular", "Angular">>,
     <<"react", "React">>,
     <<"nodejs", "Node.js">>,
     <<"vue", "Vue">> >>

Digits == {"0", "1", "2", "3", "4", "5", "6", "7", "8", "9"}

UpperCase == "ABCDEFGHIJKLMNOPQRSTUVWXYZ"

LowerCase == "abcdefghijklmnopqrstuvwxyz"

\* c.toLowerCase() for one character
LowerOf ==
  [ c \in { Ch(UpperCase, i) : i \in 1..Len(UpperCase) } |->
      Ch(LowerCase, IndexOf(UpperCase, c, 1)) ]

ToLowerCase(c) == IF c \in DOMAIN LowerOf THEN LowerOf[c] ELSE c

\* the characters \w matches
WordChars ==
  DOMAIN LowerOf \cup { Ch(LowerCase, i) : i \in 1..Len(LowerCase) } \cup Digits \cup {"_"}

\* \w
IsWordChar(c) == c \in WordChars

\* \b between positions i - 1 and i
WordBoundary(s, i) == IsWordChar(Ch(s, i - 1)) # IsWordChar(Ch(s, i))

\* new RegExp(`\\b${incorrect}\\b`, 'gi') matches at position p; a . in the
\* term is the regular expression's . and matches any character of the line
CasingMatchAt(s, p, incorrect) ==
  /\ p + Len(incorrect) - 1 <= Len(s)
  /\ \A k \in 1..Len(incorrect) :
        IF Ch(incorrect, k) = "."
          THEN Ch(s, p + k - 1) # "\n"
          ELSE ToLowerCase(Ch(s, p + k - 1)) = Ch(incorrect, k)
  /\ WordBoundary(s, p)
  /\ WordBoundary(s, p + Len(incorrect))

RECURSIVE ReplaceTerm(_, _, _, _)
\* result.replace(regex, correct)
ReplaceTerm(s, i, incorrect, correct) ==
  IF \A p \in i..Len(s) : ~CasingMatchAt(s, p, incorrect) THEN SubSeq(s, i, Len(s))
  ELSE CHOOSE replaced \in
         { SubSeq(s, i, at - 1) \o correct
             \o ReplaceTerm(s, at + Len(incorrect), incorrect, correct) :
           at \in { Least({ p \in i..Len(s) : CasingMatchAt(s, p, incorrect) }) } } : TRUE

RECURSIVE ApplyRules(_, _)
\* Object.entries(CASING_RULES).forEach(...)
ApplyRules(result, rules) ==
  IF rules = << >> THEN result
  ELSE CHOOSE final \in
         { ApplyRules(replaced, Tail(rules)) :
           replaced \in {ReplaceTerm(result, 1, Head(rules)[1], Head(rules)[2])} } : TRUE

applyCasingRules(content) == ApplyRules(content, CASING_RULES)

----------------------------------------------------------------------------
(* services/markdown-service.ts: MarkdownService.processLatexStyleCommands *)

\* the value of a decimal digit
DigitValue(d) == CHOOSE n \in 0..9 : ToString(n) = d

RECURSIVE ParseInt(_)
\* parseInt of a string of decimal digits
ParseInt(digits) ==
  IF digits = "" THEN 0
  ELSE 10 * ParseInt(SubSeq(digits, 1, Len(digits) - 1))
         + DigitValue(Ch(digits, Len(digits)))

\* (\d+): the last position of the longest run of digits that starts at i, i - 1 when none
DigitsEnd(s, i) ==
  LET E == { e \in i..Len(s) : \A k \in i..e : Ch(s, k) \in Digits }
  IN IF E = {} THEN i - 1 ELSE CHOOSE e \in E : \A f \in E : f <= e

RECURSIVE ReplaceSpacingFrom(_, _)
\* replace(/\\\\(\[(\d+)px\])?/g, (match, group1, group2) => ...)
ReplaceSpacingFrom(s, i) ==
  LET p == IndexOf(s, "\\\\", i)
      e == DigitsEnd(s, p + 3)
      sized == /\ MatchesAt(s, p + 2, "[")
               /\ e >= p + 3
               /\ MatchesAt(s, e + 1, "px]")
      pixels == IF sized THEN ParseInt(SubSeq(s, p + 3, e)) ELSE 10
  IN IF p = 0 THEN SubSeq(s, i, Len(s))
     ELSE SubSeq(s, i, p - 1)
            \o "<div style=\"height: " \o ToString(pixels) \o "px;\"></div>"
            \o ReplaceSpacingFrom(s, IF sized THEN e + 4 ELSE p + 2)

ReplaceSpacing(s) ==
  CHOOSE result \in { ReplaceSpacingFrom(subject, 1) : subject \in {s} } : TRUE

\* the en dash of the date range markup
EnDash == "&ndash;"

SkillMarkup ==
  << "<div class=\"oh-my-cv-skill\"><div class=\"oh-my-cv-skill-name\">",
     "</div><div class=\"oh-my-cv-skill-level\" style=\"width: ",
     "%;\"></div></div>" >>

DateRangeMarkup ==
  << "<div class=\"oh-my-cv-date-range\"><span class=\"oh-my-cv-date-start\">",
     "</span> " \o EnDash \o " <span class=\"oh-my-cv-date-end\">",
     "</span></div>" >>

PageBreakMarkup == <<"<div class=\"oh-my-cv-page-break\"></div>">>

\* the replacements after the spacing, in the order of the source
LatexRules ==
  << <<Group({"\\textbf{"}, "}", FALSE), <<"<strong>", "</strong>">>>>,
     <<Group({"\\textit{"}, "}", FALSE), <<"<em>", "</em>">>>>,
     <<Group({"\\underline{"}, "}", FALSE), <<"<u>", "</u>">>>>,
     <<Group({"\\textsc{"}, "}", FALSE), <<"<span class=\"small-caps\">", "</span>">>>>,
     <<Group({"\\cvtag{"}, "}", FALSE), <<"<span class=\"oh-my-cv-tag\">", "</span>">>>>,
     <<Groups({"\\cvskill{"}, FALSE), SkillMarkup>>,
     <<Groups({"\\daterange{"}, FALSE), DateRangeMarkup>> >>

processLatexStyleCommands(content) ==
  ReplaceEach(
    ReplaceSpacing(ReplaceAll(content, Literal("\\newpage"), PageBreakMarkup)),
    LatexRules)

----------------------------------------------------------------------------
(* services/export-service.ts: ExportService.processMarkdown *)

\* \cv in a regular expression literal is the control escape of the letter v
ControlV == "^V"

\* \t is the horizontal tab
Tab == "\t"

IsWhitespace(c) == c \in {" ", "\t", "\n", "\r", "\f"}

\* (\s*): the first position at or after i that holds no white space
SkipWhitespace(s, i) ==
  Least({ p \in i..(Len(s) + 1) : p > Len(s) \/ ~IsWhitespace(Ch(s, p)) })

RECURSIVE ListEnd(_, _)
\* (\s*<li>.*?<\/li>)* after a list item that ends before position i: the
\* position after the last item of the run
ListEnd(s, i) ==
  CHOOSE end \in
    { IF item.start = 0 THEN i ELSE ListEnd(s, item.end) :
      item \in {MatchAt(Group({"<li>"}, "</li>", TRUE), s, SkipWhitespace(s, i))} } : TRUE

RECURSIVE WrapListsFrom(_, _)
\* replace(/<li>.*?<\/li>(\s*<li>.*?<\/li>)*/g, match => `<ul ...>${match}</ul>`)
WrapListsFrom(s, i) ==
  CHOOSE result \in
    { IF first.start = 0 THEN SubSeq(s, i, Len(s))
      ELSE CHOOSE wrapped \in
             { SubSeq(s, i, first.start - 1)
                 \o "<ul class=\"oh-my-cv-list\">" \o SubSeq(s, first.start, end - 1)
                 \o "</ul>" \o WrapListsFrom(s, end) :
               end \in {ListEnd(s, first.end)} } : TRUE :
      first \in {FindMatch(Group({"<li>"}, "</li>", TRUE), s, i)} } : TRUE

WrapLists(s) ==
  CHOOSE result \in { WrapListsFrom(subject, 1) : subject \in {s} } : TRUE

\* the replacements before the list wrapping, in the order of the source
MarkdownRules ==
  << <<Line("# ", TRUE), <<"<h1>", "</h1>">>>>,
     <<Line("## ", TRUE), <<"<h2>", "</h2>">>>>,
     <<Line("### ", TRUE), <<"<h3>", "</h3>">>>>,
     <<Group({"**"}, "**", TRUE), <<"<strong>", "</strong>">>>>,
     <<Group({"*"}, "*", TRUE), <<"<em>", "</em>">>>>,
     <<Line("- ", FALSE), <<"<li>", "</li>">>>>,
     <<Group({ControlV \o "tag{"}, "}", TRUE),
       <<"<span class=\"oh-my-cv-tag\">", "</span>">>>>,
     <<Groups({ControlV \o "skill{"}, TRUE), SkillMarkup>>,
     <<Groups({ d \o "aterange{" : d \in Digits }, TRUE), DateRangeMarkup>>,
     <<Literal("\\newpage"), PageBreakMarkup>>,
     <<Group({Tab \o "extbf{"}, "}", TRUE), <<"<strong>", "</strong>">>>>,
     <<Group({Tab \o "extit{"}, "}", TRUE), <<"<em>", "</em>">>>>,
     <<Group({Tab \o "extsc{"}, "}", TRUE),
       <<"<span class=\"small-caps\">", "</span>">>>> >>

processMarkdown(markdown) == WrapLists(ReplaceEach(markdown, MarkdownRules))

----------------------------------------------------------------------------
(* Element.innerHTML = html: the HTML parser, for well-formed markup *)

TextNode(text) ==
  [tag |-> "#text", classes |-> {}, style |-> << >>, attrs |-> << >>,
   text |-> text, kids |-> << >>]

\* the value of attribute name in the inside of a start tag: <<value>>, << >> when absent
Attribute(open, name) ==
  LET at == IndexOf(open, " " \o name \o "=\"", 1)
      from == at + Len(name) + 3
  IN IF at = 0 THEN << >>
     ELSE <<SubSeq(open, from, IndexOf(open, "\"", from) - 1)>>

RECURSIVE Split(_, _)
\* s.split(sep) without the empty pieces, each piece trimmed
Split(s, sep) ==
  LET at == IndexOf(s, sep, 1)
      piece == IF at = 0 THEN s ELSE SubSeq(s, 1, at - 1)
      from == SkipWhitespace(piece, 1)
      trimmed == SubSeq(piece, from, Len(piece))
      rest == IF at = 0 THEN << >> ELSE Split(SubSeq(s, at + Len(sep), Len(s)), sep)
  IN IF s = "" THEN << >>
     ELSE IF trimmed = "" THEN rest ELSE <<trimmed>> \o rest

\* the class attribute as element.classList
ClassList(value) ==
  IF value = << >> THEN {}
  ELSE { Split(value[1], " ")[i] : i \in 1..Len(Split(value[1], " ")) }

\* the style attribute as element.style: property -> value
StyleDeclaration(value) ==
  IF value = << >> THEN << >>
  ELSE LET decls == Split(value[1], ";")
           name(d) == SubSeq(d, 1, IndexOf(d, ":", 1) - 1)
           val(d) == LET after == IndexOf(d, ":", 1) + 1
                     IN SubSeq(d, SkipWhitespace(d, after), Len(d))
       IN [ p \in { name(decls[i]) : i \in 1..Len(decls) } |->
              val(decls[CHOOSE i \in 1..Len(decls) :
                          /\ name(decls[i]) = p
                          /\ \A j \in (i + 1)..Len(decls) : name(decls[j]) # p]) ]

\* the attributes besides class and style that the code of this plugin reads
OtherAttributes(open) ==
  [ name \in { n \in {"href", "id", "title"} : Attribute(open, n) # << >> } |->
      Attribute(open, name)[1] ]

RECURSIVE ParseNodes(_, _)
\* the nodes that start at position i, up to the end tag of their parent
ParseNodes(s, i) ==
  IF i > Len(s) \/ MatchesAt(s, i, "</")
    THEN [nodes |-> << >>, next |-> i]
  ELSE IF Ch(s, i) = "<"
    THEN LET gt == IndexOf(s, ">", i)
             open == SubSeq(s, i + 1, gt - 1)
             sp == IndexOf(open, " ", 1)
             tag == IF sp = 0 THEN open ELSE SubSeq(open, 1, sp - 1)
             inner == ParseNodes(s, gt + 1)
             onlyText == Len(inner.nodes) = 1 /\ inner.nodes[1].tag = "#text"
             element == [tag |-> tag,
                         classes |-> ClassList(Attribute(open, "class")),
                         style |-> StyleDeclaration(Attribute(open, "style")),
                         attrs |-> OtherAttributes(open),
                         text |-> IF onlyText THEN inner.nodes[1].text ELSE "",
                         kids |-> IF onlyText THEN << >> ELSE inner.nodes]
             endTag == IndexOf(s, ">", inner.next)
             rest == IF inner.next > Len(s)
                       THEN [nodes |-> << >>, next |-> inner.next]
                       ELSE ParseNodes(s, endTag + 1)
         IN [nodes |-> <<element>> \o rest.nodes, next |-> rest.next]
    ELSE LET lt == IndexOf(s, "<", i)
             e == IF lt = 0 THEN Len(s) ELSE lt - 1
             rest == ParseNodes(s, e + 1)
         IN [nodes |-> <<TextNode(SubSeq(s, i, e))>> \o rest.nodes, next |-> rest.next]

\* the child nodes after element.innerHTML = html
ParseHTML(html) ==
  CHOOSE nodes \in { ParseNodes(markup, 1).nodes : markup \in {html} } : TRUE

----------------------------------------------------------------------------
(* services/export-service.ts: ExportService.applyExportStyling *)

\* templateStyle?.theme: << >> when there is no template
TemplateTheme(template) ==
  IF template # Undefined /\ "style" \in DOMAIN template
    THEN <<template.style.theme>>
    ELSE << >>

\* const theme = templateStyle?.theme || { ...metadata with literals }
ExportTheme(metadata, template) ==
  IF TemplateTheme(template) # << >>
    THEN TemplateTheme(template)[1]
    ELSE [primaryColor |-> StrOr(metadata, "themeColor", "#4051b5"),
          textColor |-> "#000000",
          backgroundColor |-> "#ffffff",
          headingFont |-> StrOr(metadata, "fontFamily", "Arial, sans-serif"),
          bodyFont |-> StrOr(metadata, "fontFamily", "Arial, sans-serif"),
          fontSize |-> ToString(NumOr(metadata, "fontSize", 11)) \o "pt",
          lineHeight |-> StrOr(metadata, "lineHeight", "1.5")]

\* templateStyle?.theme.linkColor || templateStyle?.theme.primaryColor || metadata.themeColor
ExportLinkColor(metadata, template) ==
  IF TemplateTheme(template) # << >>
       /\ StrMaybe(TemplateTheme(template)[1], "linkColor") # << >>
    THEN StrMaybe(TemplateTheme(template)[1], "linkColor")
    ELSE IF TemplateTheme(template) # << >>
              /\ StrMaybe(TemplateTheme(template)[1], "primaryColor") # << >>
           THEN StrMaybe(TemplateTheme(template)[1], "primaryColor")
           ELSE IF "themeColor" \in DOMAIN metadata
                  THEN <<metadata.themeColor>>
                  ELSE << >>

\* href && !href.startsWith('http') && !href.startsWith('mailto:') && !href.startsWith('#')
ExportHref(href) ==
  IF href # "" /\ ~StartsWith(href, "http") /\ ~StartsWith(href, "mailto:")
       /\ ~StartsWith(href, "#")
    THEN "https://" \o href
    ELSE href

\* querySelectorAll('a').forEach(...)
StyleLink(node, metadata, template) ==
  IF node.tag # "a" THEN node
  ELSE LET coloured == SetStyle(SetStyleMaybe(node, "color",
                                              ExportLinkColor(metadata, template)),
                                "text-decoration", "none")
       IN IF "href" \in DOMAIN coloured.attrs
            THEN [coloured EXCEPT !.attrs =
                    ("href" :> ExportHref(coloured.attrs.href)) @@ coloured.attrs]
            ELSE coloured

\* querySelectorAll('h2, h3').forEach(...)
StyleHeading(node) ==
  IF node.tag \notin {"h2", "h3"} THEN node
  ELSE SetStyle(SetStyle(SetStyle(SetStyle(node,
         "page-break-after", "avoid"), "break-after", "avoid"),
         "page-break-before", "auto"), "break-before", "auto")

\* querySelectorAll('li').forEach(...)
StyleListItem(node) ==
  IF node.tag # "li" THEN node
  ELSE SetStyle(SetStyle(node, "page-break-inside", "avoid"), "break-inside", "avoid")

RECURSIVE RemoveIndicators(_)
\* pageBreak.querySelectorAll('.oh-my-cv-page-break-indicator').forEach(i => i.remove())
RemoveIndicators(kids) ==
  IF kids = << >> THEN << >>
  ELSE IF "oh-my-cv-page-break-indicator" \in Head(kids).classes
         THEN RemoveIndicators(Tail(kids))
         ELSE <<[Head(kids) EXCEPT !.kids = RemoveIndicators(Head(kids).kids)]>>
                \o RemoveIndicators(Tail(kids))

\* a page-break pass that sets the style and leaves the children alone
StylePageBreak_keepChildren(node) ==
  IF "oh-my-cv-page-break" \notin node.classes THEN node
  ELSE [node EXCEPT
          !.style = [p \in {"page-break-after", "break-after"} |->
                       IF p = "page-break-after" THEN "always" ELSE "page"]]

\* querySelectorAll('.oh-my-cv-page-break').forEach(...)
StylePageBreak(node) ==
  IF "oh-my-cv-page-break" \notin node.classes THEN node
  ELSE [node EXCEPT
          !.style = [p \in {"page-break-after", "break-after"} |->
                       IF p = "page-break-after" THEN "always" ELSE "page"],
          !.kids = RemoveIndicators(node.kids)]

RECURSIVE StyleDescendants(_, _, _)
\* the four querySelectorAll passes over the descendants of the export element
StyleDescendants(kids, metadata, template) ==
  IF kids = << >> THEN << >>
  ELSE LET styled == StyleListItem(StyleHeading(StylePageBreak(
                       StyleLink(Head(kids), metadata, template))))
       IN <<[styled EXCEPT !.kids = StyleDescendants(styled.kids, metadata, template)]>>
            \o StyleDescendants(Tail(kids), metadata, template)

applyExportStyling(element, metadata, template) ==
  LET theme == ExportTheme(metadata, template)
      fontFamily == StrOr(theme, "bodyFont", StrOr(metadata, "fontFamily", "Arial, sans-serif"))
      fontSize == StrOr(theme, "fontSize", ToString(NumOr(metadata, "fontSize", 11)) \o "pt")
      lineHeight == StrOr(theme, "lineHeight", StrOr(metadata, "lineHeight", "1.5"))
      textColor == StrOr(theme, "textColor", "#000")
      bgColor == StrOr(theme, "backgroundColor", "#fff")
      themeColor == StrOr(theme, "primaryColor", StrOr(metadata, "themeColor", "#4051b5"))
      root == SetStyle(SetStyle(SetStyle(SetStyle(SetStyle(SetStyle(
                [element EXCEPT !.classes = @ \cup {"oh-my-cv-export"}],
                "font-family", fontFamily), "font-size", fontSize),
                "line-height", lineHeight), "color", textColor),
                "background-color", bgColor), "--theme-color", themeColor)
      withCss == IF StrMaybe(metadata, "customCss") # << >>
                   THEN [root EXCEPT !.kids =
                           Append(@, Node("style", {}, << >>, metadata.customCss, << >>))]
                   ELSE root
  IN [withCss EXCEPT !.kids = StyleDescendants(withCss.kids, metadata, template)]

\* addHeader: element.prepend(headerElement)
addHeader(element, headerContent) ==
  [element EXCEPT !.kids =
     <<Node("div", {"oh-my-cv-header"}, << >>, headerContent, << >>)>> \o @]

\* addFooter: element.appendChild(footerElement)
addFooter(element, footerContent) ==
  [element EXCEPT !.kids =
     Append(@, Node("div", {"oh-my-cv-footer"}, << >>, footerContent, << >>))]

\* index of the first child carrying the footer class, 0 when there is none
FooterIndex(kids) ==
  IF \E i \in 1..Len(kids) : "oh-my-cv-footer" \in kids[i].classes
    THEN CHOOSE i \in 1..Len(kids) :
           /\ "oh-my-cv-footer" \in kids[i].classes
           /\ \A j \in 1..(i - 1) : "oh-my-cv-footer" \notin kids[j].classes
    ELSE 0

addPageNumbers(element) ==
  LET withStyle == Append(element.kids,
                     Node("style", {}, << >>, ".oh-my-cv-page-number::after", << >>))
      pageNumberElement == Node("div", {"oh-my-cv-page-number"}, << >>, "Page ", << >>)
      footer == FooterIndex(withStyle)
  IN [element EXCEPT !.kids =
        IF footer > 0
          THEN [withStyle EXCEPT ![footer].kids = Append(@, pageNumberElement)]
          ELSE Append(withStyle,
                 Node("div", {"oh-my-cv-footer"}, << >>, "", <<pageNumberElement>>))]

----------------------------------------------------------------------------
(* services/export-service.ts: ExportService.exportToPDF *)

\* key: obj[key] inside an object literal; the property is undefined when obj lacks it
Prop(key, obj, from) ==
  IF from \in DOMAIN obj THEN (key :> obj[from]) ELSE EmptyObject

\* const exportOptions = { filename: ..., pageSize: ..., ..., ...options }
MergeExportOptions(metadata, options) ==
  Spread( ("filename" :> (StrOr(metadata, "title", "CV") \o ".pdf"))
            @@ Prop("pageSize", metadata, "pageSize")
            @@ ("orientation" :> StrOr(metadata, "orientation", "portrait"))
            @@ Prop("margins", metadata, "margins")
            @@ [includeHeader |-> FALSE, includeFooter |-> FALSE,
                includePageNumbers |-> TRUE, embedFonts |-> TRUE, imageQuality |-> 90],
          options )

\* the header, footer and page-number steps on the styled clone
Decorate(element, exportOptions) ==
  LET withHeader == IF exportOptions.includeHeader
                         /\ StrMaybe(exportOptions, "headerContent") # << >>
                      THEN addHeader(element, exportOptions.headerContent)
                      ELSE element
      withFooter == IF exportOptions.includeFooter
                         /\ StrMaybe(exportOptions, "footerContent") # << >>
                      THEN addFooter(withHeader, exportOptions.footerContent)
                      ELSE withHeader
  IN IF exportOptions.includePageNumbers THEN addPageNumbers(withFooter) ELSE withFooter

\* reading exportOptions.margins.top throws a TypeError when margins is undefined
MarginsThrow(exportOptions) == "margins" \notin DOMAIN exportOptions

\* a configuration whose margin tuple is in the order of the CSS longhands
\* of the metadata record (top, bottom, left, right)
Html2PdfOptions_recordOrder(exportOptions) ==
  [margin |-> <<exportOptions.margins.top, exportOptions.margins.bottom,
                exportOptions.margins.left, exportOptions.margins.right>>,
   filename |-> exportOptions.filename,
   image |-> [type |-> "jpeg",
              quality |-> [num |-> NumOr(exportOptions, "imageQuality", 90), den |-> 100]],
   html2canvas |-> [scale |-> 2, logging |-> FALSE, dpi |-> 192, letterRendering |-> TRUE],
   jsPDF |-> ("unit" :> "mm")
               @@ Prop("format", exportOptions, "pageSize")
               @@ ("orientation" :> StrOr(exportOptions, "orientation", "portrait")),
   fontFaces |-> ("embedFonts" \in DOMAIN exportOptions /\ exportOptions.embedFonts)]

\* const html2pdfOptions = { margin: [...], filename, image, html2canvas, jsPDF, fontFaces }
\* image.quality is the fraction num/den
Html2PdfOptions(exportOptions) ==
  [margin |-> <<exportOptions.margins.top, exportOptions.margins.right,
                exportOptions.margins.bottom, exportOptions.margins.left>>,
   filename |-> exportOptions.filename,
   image |-> [type |-> "jpeg",
              quality |-> [num |-> NumOr(exportOptions, "imageQuality", 90), den |-> 100]],
   html2canvas |-> [scale |-> 2, logging |-> FALSE, dpi |-> 192, letterRendering |-> TRUE],
   jsPDF |-> ("unit" :> "mm")
               @@ Prop("format", exportOptions, "pageSize")
               @@ ("orientation" :> StrOr(exportOptions, "orientation", "portrait")),
   fontFaces |-> ("embedFonts" \in DOMAIN exportOptions /\ exportOptions.embedFonts)]

\* contentElement.cloneNode(true): the element the copy lives in
CloneNode_sameElement(contentElement) == contentElement

CloneNode(contentElement) ==
  CHOOSE id \in CloneIds : id \notin DOMAIN dom /\ \A j \in CloneIds : j < id => j \in DOMAIN dom

\* an element nothing refers to any more is collected; the view keeps previewEl
Release(d, el) ==
  IF el = previewEl THEN d ELSE [e \in DOMAIN d \ {el} |-> d[e]]

ErrorMessages == {"Export failed"}

\* the body of exportToPDF up to its await, on the elements of heap
ExportToPDF(heap, contentElement, document, options) ==
  LET clone == CloneNode(contentElement)
      cloned == (clone :> heap[contentElement]) @@ heap
      exportOptions == MergeExportOptions(document.metadata, options)
      styled == Decorate(applyExportStyling(cloned[clone], document.metadata, Undefined),
                         exportOptions)
      mutated == [cloned EXCEPT ![clone] = styled]
  IN /\ Cardinality(rasterizing) < MaxInFlight
     /\ \E id \in CloneIds : id \notin DOMAIN dom
     /\ IF MarginsThrow(exportOptions)
          THEN \* caught by the catch block: console.error and a Notice
               /\ dom' = Release(Release(mutated, clone), contentElement)
               /\ exportResult' = [outcome |-> "threw", message |-> "TypeError",
                                   value |-> Undefined, rejected |-> FALSE,
                                   notice |-> "PDF export failed: TypeError"]
               /\ UNCHANGED rasterizing
          ELSE \* await html2pdf().set(html2pdfOptions).from(clone).save()
               /\ dom' = mutated
               /\ rasterizing' = rasterizing \cup
                    {[el |-> clone, source |-> contentElement,
                      request |-> [metadata |-> document.metadata, options |-> options],
                      exportOptions |-> exportOptions,
                      options |-> Html2PdfOptions(exportOptions)]}
               /\ UNCHANGED exportResult

ExportService_exportToPDF(contentElement, document, options) ==
  /\ ExportToPDF(dom, contentElement, document, options)
  /\ UNCHANGED <<currentDocument, lastExportOptions, rendering, repoVars, storageVars>>

\* the save() promise of a rasterization resolves
rasterizerResolves(r) ==
  /\ r \in rasterizing
  /\ rasterizing' = rasterizing \ {r}
  /\ dom' = Release(Release(dom, r.el), r.source)
  /\ exportResult' = [outcome |-> "resolved", message |-> "",
                      value |-> Undefined, rejected |-> FALSE,
                      notice |-> "PDF export completed successfully!"]
  /\ UNCHANGED <<currentDocument, lastExportOptions, rendering, repoVars, storageVars>>

\* the save() promise of a rasterization rejects with new Error(message)
rasterizerRejects(r, message) ==
  /\ r \in rasterizing
  /\ rasterizing' = rasterizing \ {r}
  /\ dom' = Release(Release(dom, r.el), r.source)
  /\ exportResult' = [outcome |-> "rejected", message |-> message,
                      value |-> Undefined, rejected |-> FALSE,
                      notice |-> "PDF export failed: " \o message]
  /\ UNCHANGED <<currentDocument, lastExportOptions, rendering, repoVars, storageVars>>

(* ui/cv-editor-view.ts: CVEditorView.exportToPDF, bound to the Export PDF *)
(* button and to the EXPORT_TO_PDF command                                   *)
CVEditorView_exportToPDF ==
  /\ currentDocument # Null
  /\ ExportService_exportToPDF(previewEl, currentDocument, EmptyObject)

----------------------------------------------------------------------------
(* services/export-service.ts: ExportService.generateHTML, exportWithOptions *)

\* generateHTML(document, template): the container whose outerHTML is returned,
\* kept as the tree that markup stands for.  A document given as a string is
\* a record without metadata.
generateHTML(document, template) ==
  CHOOSE html \in
    { IF "metadata" \in DOMAIN document
        THEN applyExportStyling(container, document.metadata, template)
      ELSE IF template = Undefined
        THEN container
      ELSE IF "style" \in DOMAIN template /\ "theme" \in DOMAIN template.style
        THEN SetStyle(SetStyle(SetStyle(SetStyle(container,
               "font-family", StrOr(template.style.theme, "bodyFont", "sans-serif")),
               "color", StrOr(template.style.theme, "textColor", "#000")),
               "background-color", StrOr(template.style.theme, "backgroundColor", "#fff")),
               "--theme-color", StrOr(template.style.theme, "primaryColor", "#4051b5"))
        ELSE SetStyle(SetStyle(SetStyle(SetStyle(container,
               "font-family", "sans-serif"), "color", "#000"),
               "background-color", "#fff"), "--theme-color", "#4051b5") :
      container \in { Node("div", {"oh-my-cv-export-container"}, << >>, "",
                           ParseHTML(processMarkdown(document.content))) } } : TRUE

\* the element ids detached containers can take
ContainerIds == (MaxInFlight + 1)..(2 * MaxInFlight)

\* window.document.createElement('div'): the element the new div lives in
CreateElement ==
  CHOOSE id \in ContainerIds :
    id \notin DOMAIN dom /\ \A j \in ContainerIds : j < id => j \in DOMAIN dom

\* containerEl.innerHTML = this.generateHTML(document), then exportToPDF on it
ExportGenerated(document, options) ==
  LET containerEl == CreateElement
      filled == Node("div", {}, << >>, "", <<generateHTML(document, Undefined)>>)
  IN /\ \E id \in ContainerIds : id \notin DOMAIN dom
     /\ ExportToPDF((containerEl :> filled) @@ dom, containerEl, document, options)

ExportService_exportWithOptions(document, options) ==
  /\ ExportGenerated(document, options)
  /\ UNCHANGED <<currentDocument, lastExportOptions, rendering, repoVars, storageVars>>

----------------------------------------------------------------------------
(* services/settings-service.ts: getLastExportOptions / setLastExportOptions *)
(* ui/export-modal.ts: PDFExportOptionsModal                                 *)

getLastExportOptions == lastExportOptions

\* plugin.data.lastExportOptions = options; await plugin.saveData(plugin.data)
setLastExportOptions(options) ==
  /\ lastExportOptions' = options
  /\ pendingSaves' = pendingSaves + 1
  /\ savedData' = [lastExportOptions |-> options]

\* last?.key || fallback for a boolean option (undefined has no options)
FlagOr(last, key, fallback) ==
  IF key \in DOMAIN last /\ last[key] THEN TRUE ELSE fallback

\* a || b || c over optional values: the first one that is there
FirstOf(candidates) ==
  candidates[CHOOSE i \in 1..Len(candidates) :
               candidates[i] # << >> /\ \A j \in 1..(i - 1) : candidates[j] = << >>][1]

\* obj?.key as an optional value, for a property that holds an object
ObjMaybe(obj, key) ==
  IF key \in DOMAIN obj THEN <<obj[key]>> ELSE << >>

\* this.options as the constructor of the modal sets it
PDFExportOptionsModal_options(document) ==
  LET last == getLastExportOptions
      metadata == document.metadata
  IN [filename |-> StrOr(metadata, "title", "CV") \o ".pdf",
      pageSize |-> FirstOf(<<StrMaybe(metadata, "pageSize"), StrMaybe(last, "pageSize"),
                             <<settings.defaultPageSize>> >>),
      orientation |-> FirstOf(<<StrMaybe(metadata, "orientation"),
                                StrMaybe(last, "orientation"),
                                <<"portrait">> >>),
      margins |-> FirstOf(<<ObjMaybe(metadata, "margins"), ObjMaybe(last, "margins"),
                            <<settings.defaultMargins>> >>),
      includeHeader |-> FlagOr(last, "includeHeader", FALSE),
      includeFooter |-> FlagOr(last, "includeFooter", FALSE),
      includePageNumbers |-> FlagOr(last, "includePageNumbers", TRUE),
      headerContent |-> FirstOf(<<StrMaybe(last, "headerContent"), <<"">> >>),
      footerContent |-> FirstOf(<<StrMaybe(last, "footerContent"), <<"">> >>),
      embedFonts |-> FlagOr(last, "embedFonts", TRUE),
      imageQuality |-> NumOr(last, "imageQuality", 90)]

\* what the user changes in the dialog before pressing Export PDF
ModalEdits ==
  { EmptyObject, [includeFooter |-> TRUE, footerContent |-> "<i>end</i>"] }

\* the Export PDF button of the dialog opened for document: close, exportPDF()
\* up to its await, then setLastExportOptions(this.options)
PDFExportOptionsModal_export(document, edits) ==
  LET options == Spread(PDFExportOptionsModal_options(document), edits)
  IN /\ pendingSaves < MaxPending
     /\ ExportGenerated(document, options)
     /\ setLastExportOptions(options)
     /\ UNCHANGED <<currentDocument, rendering, DEFAULT_TEMPLATES, DEFAULT_SETTINGS,
                    settings, sharedTemplates, now, returned, storageVars>>

----------------------------------------------------------------------------
(* services/markdown-service.ts: MarkdownService.renderMarkdown and its     *)
(* post-processing                                                          *)

\* MarkdownRenderer.renderMarkdown of Obsidian: the nodes it appends to the
\* container.  The HTML the transformer has put into the text becomes those
\* elements; how the renderer lays out the Markdown between them is its own
\* business, so each run of Markdown is kept as one node of tag #markdown.
MarkdownRenderer_renderMarkdown(markdown) ==
  CHOOSE rendered \in
    { [ i \in 1..Len(nodes) |->
          IF nodes[i].tag = "#text" THEN [nodes[i] EXCEPT !.tag = "#markdown"]
          ELSE nodes[i] ] :
      nodes \in {ParseHTML(markdown)} } : TRUE

\* the class addClassesToElements gives to the elements of a tag
ElementClass ==
  [h1 |-> "oh-my-cv-name", h2 |-> "oh-my-cv-section", h3 |-> "oh-my-cv-subsection",
   ul |-> "oh-my-cv-list", li |-> "oh-my-cv-list-item", a |-> "oh-my-cv-link",
   p |-> "oh-my-cv-paragraph"]

RECURSIVE AddClasses(_)
AddClasses(kids) ==
  [ i \in 1..Len(kids) |->
      [kids[i] EXCEPT
         !.classes = IF kids[i].tag \in DOMAIN ElementClass
                       THEN @ \cup {ElementClass[kids[i].tag]} ELSE @,
         !.kids = AddClasses(@)] ]

addClassesToElements(container) == [container EXCEPT !.kids = AddClasses(@)]

RECURSIVE TextContent(_)
\* node.textContent
TextContent(node) ==
  IF node.kids = << >> THEN node.text
  ELSE TextContent(node.kids[1])
         \o TextContent([node EXCEPT !.text = "", !.kids = Tail(@)])

RECURSIVE Descendants(_)
\* querySelectorAll('*') with the text nodes, in document order
Descendants(kids) ==
  IF kids = << >> THEN << >>
  ELSE <<Head(kids)>> \o Descendants(Head(kids).kids) \o Descendants(Tail(kids))

\* idMap.get(id): the last element of the container that has the id
ElementWithId(container, id) ==
  LET all == Descendants(container.kids)
  IN all[CHOOSE i \in 1..Len(all) :
           /\ "id" \in DOMAIN all[i].attrs /\ all[i].attrs.id = id
           /\ \A j \in (i + 1)..Len(all) :
                ~("id" \in DOMAIN all[j].attrs /\ all[j].attrs.id = id)]

RECURSIVE CrossReference(_, _)
\* querySelectorAll('a[href^="#"]').forEach(...)
CrossReference(kids, container) ==
  [ i \in 1..Len(kids) |->
      LET node == kids[i]
          all == Descendants(container.kids)
          targetId == SubSeq(node.attrs.href, 2, Len(node.attrs.href))
          linked == /\ node.tag = "a"
                    /\ "href" \in DOMAIN node.attrs
                    /\ StartsWith(node.attrs.href, "#")
                    /\ targetId # ""
                    /\ \E j \in 1..Len(all) :
                         "id" \in DOMAIN all[j].attrs /\ all[j].attrs.id = targetId
          marked == IF linked
                      THEN [node EXCEPT
                              !.classes = @ \cup {"oh-my-cv-cross-reference"},
                              !.attrs = ("title" :> TextContent(
                                           ElementWithId(container, targetId))) @@ @]
                      ELSE node
      IN [marked EXCEPT !.kids = CrossReference(@, container)] ]

processCrossReferences(container) ==
  [container EXCEPT !.kids = CrossReference(@, container)]

RECURSIVE AddIndicators(_)
\* querySelectorAll('.oh-my-cv-page-break').forEach(b => b.prepend(indicator))
AddIndicators(kids) ==
  [ i \in 1..Len(kids) |->
      LET inner == AddIndicators(kids[i].kids)
      IN IF "oh-my-cv-page-break" \in kids[i].classes
           THEN [kids[i] EXCEPT !.kids =
                   <<Node("div", {"oh-my-cv-page-break-indicator"}, << >>,
                          "Page Break", << >>)>> \o inner]
           ELSE [kids[i] EXCEPT !.kids = inner] ]

visualizePageBreaks(container) == [container EXCEPT !.kids = AddIndicators(@)]

postProcessRenderedContent(container) ==
  LET classed == addClassesToElements(container)
      referenced == IF settings.texSupport THEN processCrossReferences(classed)
                    ELSE classed
  IN IF settings.showPageBreaks THEN visualizePageBreaks(referenced) ELSE referenced

\* the pre-processing of renderMarkdown
PreprocessMarkdown(markdown) ==
  processLatexStyleCommands(
    IF settings.autoCasing THEN applyCasingRules(markdown) ELSE markdown)

\* renderMarkdown(markdown, container) up to its await: pre-process, empty the
\* container, call the renderer
renderMarkdown(markdown, container) ==
  /\ Len(rendering) < MaxRenders
  /\ dom' = [dom EXCEPT ![container] = [@ EXCEPT !.text = "", !.kids = << >>]]
  /\ rendering' = Append(rendering, [markdown |-> PreprocessMarkdown(markdown),
                                     container |-> container])

\* sequence s without its element i
RemoveAt(s, i) == SubSeq(s, 1, i - 1) \o SubSeq(s, i + 1, Len(s))

\* a renderer call resolves: its nodes are in the container, post-processing runs
rendererResolves(i) ==
  LET call == rendering[i]
      appended == [dom[call.container] EXCEPT
                     !.kids = @ \o MarkdownRenderer_renderMarkdown(call.markdown)]
  IN /\ i \in 1..Len(rendering)
     /\ dom' = [dom EXCEPT ![call.container] = postProcessRenderedContent(appended)]
     /\ rendering' = RemoveAt(rendering, i)
     /\ UNCHANGED <<currentDocument, rasterizing, exportResult, lastExportOptions, repoVars, storageVars>>

RenderErrors == {"Error: Render failed"}

\* a renderer call rejects: the catch block replaces the content of the container
rendererRejects(i, error) ==
  LET call == rendering[i]
  IN /\ i \in 1..Len(rendering)
     /\ dom' = [dom EXCEPT ![call.container] =
                  [@ EXCEPT !.text = "",
                            !.kids = ParseHTML("<div class=\"oh-my-cv-error\">"
                                         \o "Error rendering markdown: " \o error
                                         \o "</div>")]]
     /\ rendering' = RemoveAt(rendering, i)
     /\ UNCHANGED <<currentDocument, rasterizing, exportResult, lastExportOptions, repoVars, storageVars>>

(* ui/cv-editor-view.ts: CVEditorView.updatePreview, run on every editor change *)
\* content is the text the editor holds when updatePreview reads editorEl.value
updatePreview(content) ==
  /\ editorValue' = content
  /\ currentDocument' = IF currentDocument # Null
                          THEN [currentDocument EXCEPT !.content = content]
                          ELSE currentDocument
  /\ renderMarkdown(content, previewEl)
  /\ UNCHANGED <<rasterizing, exportResult, lastExportOptions, repoVars, vault,
                 vaultCalls>>

CVEditorView_updatePreview(content) ==
  /\ updatePreview(content)
  /\ UNCHANGED unsavedChanges

\* the editor's input event: the text has changed to value
CVEditorView_handleEditorChange(value) ==
  /\ unsavedChanges' = TRUE
  /\ updatePreview(value)

----------------------------------------------------------------------------
(* Inputs of the export path *)

PageBreakIndicator ==
  Node("div", {"oh-my-cv-page-break-indicator"}, << >>, "Page Break", << >>)

\* a preview rendered with page-break visualization on
PreviewWithIndicator ==
  [ Node("div", {"oh-my-cv-preview"}, << >>, "",
      << Node("h1", {"oh-my-cv-name"}, << >>, "Name", << >>),
         Node("h2", {"oh-my-cv-section"}, << >>, "Skills", << >>),
         Node("ul", {"oh-my-cv-list"}, << >>, "",
              <<Node("li", {"oh-my-cv-list-item"}, << >>, "TypeScript", << >>)>>),
         Node("a", {"oh-my-cv-link"}, [href |-> "example.com"], "site", << >>),
         Node("div", {"oh-my-cv-page-break"}, << >>, "", <<PageBreakIndicator>>) >>)
    EXCEPT !.style = [color |-> "inherit"] ]

\* a preview rendered with page-break visualization off
PreviewPlain ==
  Node("div", {"oh-my-cv-preview"}, << >>, "",
    << Node("h3", {"oh-my-cv-subsection"}, << >>, "Role", << >>),
       Node("a", {"oh-my-cv-link"}, [href |-> "#skills"], "skills", << >>),
       Node("a", {"oh-my-cv-link"}, [href |-> "mailto:me@example.com"], "mail", << >>),
       Node("a", {"oh-my-cv-link"}, [href |-> "http://example.com"], "web", << >>),
       Node("a", {"oh-my-cv-link"}, [href |-> "ftp://example.com/cv.pdf"], "file", << >>),
       Node("div", {"oh-my-cv-page-break"}, << >>, "", << >>) >>)

PreviewInputs == { PreviewWithIndicator, PreviewPlain }

\* metadata as StorageService.createCV writes it
MetadataCreated ==
  [title |-> "My CV", lastModified |-> 0, pageSize |-> "A4", margins |-> Margins(20),
   themeColor |-> "#4051b5", fontFamily |-> "Inter, sans-serif", fontSize |-> 10,
   lineHeight |-> "1.5"]

\* every optional field set
MetadataFull ==
  [title |-> "My CV", lastModified |-> 0, pageSize |-> "LETTER",
   orientation |-> "landscape",
   margins |-> [top |-> 10, right |-> 15, bottom |-> 20, left |-> 25],
   themeColor |-> "#861f41", fontFamily |-> "Georgia", fontSize |-> 12,
   lineHeight |-> "1.4", customCss |-> "h1 { margin: 0 }"]

\* frontmatter edited by hand: YAML.parse returns whatever keys the file has
MetadataNoPageSize ==
  [title |-> "My CV", lastModified |-> 0, margins |-> Margins(20),
   themeColor |-> "#4051b5"]

MetadataNoMargins ==
  [title |-> "", lastModified |-> 0, pageSize |-> "LEGAL"]

MetadataInputs == { MetadataCreated, MetadataFull, MetadataNoPageSize, MetadataNoMargins }

\* the Markdown of the documents that are exported
DocumentContent == "# Name\n<a href=\"example.com\">site</a>\n\\newpage"

DocumentInputs ==
  { [path |-> "CVs/My CV.cv.md", metadata |-> m, content |-> DocumentContent] :
      m \in MetadataInputs }

\* Partial<PDFExportOptions> values handed to exportToPDF
ExportOptionsInputs ==
  { EmptyObject,
    [pageSize |-> "TABLOID", imageQuality |-> 0],
    [orientation |-> "landscape",
     margins |-> [top |-> 0, right |-> 2, bottom |-> 3, left |-> 4]],
    [filename |-> "out.pdf", pageSize |-> "LETTER", orientation |-> "portrait",
     margins |-> Margins(5), includeHeader |-> TRUE, headerContent |-> "<b>CV</b>",
     includeFooter |-> TRUE, footerContent |-> "<i>end</i>",
     includePageNumbers |-> TRUE, embedFonts |-> FALSE, imageQuality |-> 60] }

----------------------------------------------------------------------------
(* Specifications *)

\* an empty vault, no document open in the editor
InitStorage ==
  /\ vault = << >>
  /\ vaultCalls = << >>
  /\ editorValue = ""
  /\ unsavedChanges = FALSE

InitRepo ==
  /\ DEFAULT_TEMPLATES = BuiltinTemplates
  /\ DEFAULT_SETTINGS = InitialDefaultSettings
  /\ settings = InitialDefaultSettings       \* constructor: { ...DEFAULT_SETTINGS }
  /\ sharedTemplates = TRUE
  /\ pendingSaves = 0
  /\ savedData = Null
  /\ now = 0
  /\ returned = [op |-> "constructor"]

NoExportResult ==
  [outcome |-> "none", message |-> "", value |-> Undefined, rejected |-> FALSE,
   notice |-> ""]

\* the template repository, with one view that has no document
Init ==
  /\ InitRepo
  /\ dom = (previewEl :> PreviewPlain)
  /\ currentDocument = Null
  /\ rasterizing = {}
  /\ exportResult = NoExportResult
  /\ lastExportOptions = Undefined
  /\ rendering = << >>
  /\ InitStorage

Next ==
  \/ \E data \in StoredDataInputs : loadSettings(data)
  \/ \E id \in IdInputs : lookupTemplate(id)
  \/ \E template \in AddInputs : addTemplate(template)
  \/ \E id \in IdInputs : deleteTemplate(id)
  \/ \E style \in StyleInputs :
       createTemplateFromCurrent("Current Template", "Created from current content",
                                 "# Current CV Content", style)
  \/ \E id \in UpdateIdInputs, partial \in PartialInputs : updateTemplate(id, partial)
  \/ saveDataSettled
  \/ Tick

Spec == Init /\ [][Next]_vars

\* the export path of one editing session
InitExport ==
  /\ InitRepo
  /\ dom \in { (previewEl :> tree) : tree \in PreviewInputs }
  /\ currentDocument \in DocumentInputs \cup {Null}
  /\ rasterizing = {}
  /\ exportResult = NoExportResult
  /\ lastExportOptions = Undefined
  /\ rendering = << >>
  /\ InitStorage

NextExport ==
  \/ CVEditorView_exportToPDF
  \/ \E document \in DocumentInputs, options \in ExportOptionsInputs :
       ExportService_exportToPDF(previewEl, document, options)
  \/ \E r \in rasterizing : rasterizerResolves(r)
  \/ \E r \in rasterizing, message \in ErrorMessages : rasterizerRejects(r, message)

SpecExport == InitExport /\ [][NextExport]_vars

\* the documents exported without a preview: from the export dialog and by
\* exportWithOptions
DialogDocuments ==
  { document \in DocumentInputs : document.metadata \in {MetadataFull, MetadataNoMargins} }

DialogOptions ==
  { EmptyObject,
    [orientation |-> "landscape",
     margins |-> [top |-> 0, right |-> 2, bottom |-> 3, left |-> 4]] }

\* the exports of Document values
NextDialog ==
  \/ \E document \in DialogDocuments, options \in DialogOptions :
       ExportService_exportWithOptions(document, options)
  \/ \E document \in DialogDocuments, edits \in ModalEdits :
       PDFExportOptionsModal_export(document, edits)
  \/ \E r \in rasterizing : rasterizerResolves(r)
  \/ \E r \in rasterizing, message \in ErrorMessages : rasterizerRejects(r, message)
  \/ saveDataSettled

SpecDialog == Init /\ [][NextDialog]_vars

\* the Markdown handed to generateHTML
GenerateTexts ==
  { "# Name\n## Skills\n- **Go** and *TS*",
    "\\cvtag{Go}",
    "\\cvskill{TS}{80} \\daterange{2019}{2020}",
    "\\newpage",
    "\\textbf{b} \\textit{i} \\underline{u} \\textsc{s}",
    "<a href=\"example.com\">site</a>",
    Tab \o "extbf{b} 1aterange{a}{b}",
    ControlV \o "tag{x}" }

\* documents and bare strings handed to generateHTML
GenerateInputs ==
  { [path |-> "CVs/My CV.cv.md", metadata |-> m, content |-> text] :
      m \in MetadataInputs, text \in GenerateTexts }
    \cup { [content |-> text] : text \in GenerateTexts }

\* templates handed to generateHTML: none, a builtin one, a user one whose
\* theme sets the three colors only
GenerateTemplates ==
  { Undefined, ACADEMIC_CV_TEMPLATE, TemplateInput("custom-template", "User Template 1") }

\* a call of generateHTML and the tree behind the markup it returns
ExportService_generateHTML(document, template) ==
  /\ returned' = [op |-> "generateHTML", document |-> document, template |-> template,
                  value |-> generateHTML(document, template)]
  /\ UNCHANGED <<DEFAULT_TEMPLATES, DEFAULT_SETTINGS, settings, sharedTemplates,
                 pendingSaves, savedData, now, exportVars, storageVars>>

NextGenerate ==
  \E document \in GenerateInputs, template \in GenerateTemplates :
    ExportService_generateHTML(document, template)

\* the Document entry point's tree builder as a function of its arguments
SpecGenerate == Init /\ [][NextGenerate]_vars

\* the Markdown typed into the editor
EditorTexts ==
  { "# Name\n\\cvtag{ui} \\textbf{Go}",
    "\\newpage",
    "\\cvtag{} \\textit{x",
    "- item \\cvskill{TS}{80}",
    "\\daterange{2019}{2020}\\\\[5px]" }

\* the settings the preview reads, as updateSettings can leave them
RenderSettings ==
  { [InitialDefaultSettings EXCEPT !.autoCasing = casing, !.showPageBreaks = breaks] :
      casing \in BOOLEAN, breaks \in BOOLEAN }

\* the live preview of one editing session
InitRender ==
  /\ DEFAULT_TEMPLATES = BuiltinTemplates
  /\ DEFAULT_SETTINGS = InitialDefaultSettings
  /\ settings \in RenderSettings
  /\ sharedTemplates = TRUE
  /\ pendingSaves = 0
  /\ savedData = Null
  /\ now = 0
  /\ returned = [op |-> "constructor"]
  /\ dom = (previewEl :> Node("div", {"oh-my-cv-preview"}, << >>, "", << >>))
  /\ currentDocument \in {Null} \cup
       { [path |-> "CVs/My CV.cv.md", metadata |-> MetadataCreated, content |-> ""] }
  /\ rasterizing = {}
  /\ exportResult = NoExportResult
  /\ lastExportOptions = Undefined
  /\ rendering = << >>
  /\ InitStorage

NextRender ==
  \/ \E content \in EditorTexts : CVEditorView_updatePreview(content)
  \/ \E i \in 1..Len(rendering) : rendererResolves(i)
  \/ \E i \in 1..Len(rendering), error \in RenderErrors : rendererRejects(i, error)

SpecRender == InitRender /\ [][NextRender]_vars

----------------------------------------------------------------------------
(* Template repository properties *)

BuiltinIds == { DEFAULT_TEMPLATES[i].id : i \in 1..Len(DEFAULT_TEMPLATES) }

UserIds == { settings.templates[i].id : i \in 1..Len(settings.templates) }

\* C1: a lookup by an id that a builtin template has returns that builtin
\* entry, whatever the user list holds; the user list answers only for ids
\* that no builtin template has.
C1_BuiltinLookupWins ==
  returned.op = "getTemplateById" =>
    IF returned.id \in BuiltinIds
      THEN /\ \E i \in 1..Len(DEFAULT_TEMPLATES) : DEFAULT_TEMPLATES[i] = returned.value
           /\ returned.value.id = returned.id
      ELSE \/ /\ returned.id \notin UserIds
              /\ returned.value = Undefined
           \/ /\ \E i \in 1..Len(settings.templates) :
                     settings.templates[i] = returned.value
              /\ returned.value.id = returned.id

\* a builtin id was looked up while a different user entry with that id was stored
C1_Witness ==
  /\ returned.op = "getTemplateById"
  /\ returned.id \in BuiltinIds
  /\ \E i \in 1..Len(settings.templates) :
        /\ settings.templates[i].id = returned.id
        /\ settings.templates[i] # returned.value

\* C2: deleteTemplate on a builtin id returns false and leaves the builtin
\* list and the user list unchanged.
C2_DeleteBuiltinRefused ==
  [][ \A id \in BuiltinIds :
        deleteTemplate(id) =>
          /\ returned'.value = FALSE
          /\ settings'.templates = settings.templates
          /\ DEFAULT_TEMPLATES' = DEFAULT_TEMPLATES ]_vars

\* C3: no two entries of the user template list share an id.
C3_UserIdsUnique ==
  \A i, j \in 1..Len(settings.templates) :
    i # j => settings.templates[i].id # settings.templates[j].id

\* what C4 asks of one addTemplate(t) step
AddPost(t) ==
  LET old == settings.templates
      new == settings'.templates
  IN IF \E i \in 1..Len(old) : old[i].id = t.id
       THEN /\ Len(new) = Len(old)
            /\ \A i \in 1..Len(old) : old[i].id = t.id => new[i] = t
            /\ \A i \in 1..Len(old) : old[i].id # t.id => new[i] = old[i]
            /\ Cardinality({ i \in 1..Len(new) : new[i].id = t.id }) = 1
       ELSE new = Append(old, t)

\* C4: addTemplate(t) puts t at the index of the user entry that has t's id,
\* keeping the length and every other entry, so that exactly one entry has
\* that id; with no such entry it appends t.
C4_AddReplacesInPlaceOrAppends ==
  [][ \A t \in AddInputs : addTemplate(t) => AddPost(t) ]_vars

\* what C5 asks of one updateTemplate(id, partial) step
UpdatePost(id, partial) ==
  LET old == settings.templates
      new == settings'.templates
  IN /\ DEFAULT_TEMPLATES' = DEFAULT_TEMPLATES
     /\ IF \E i \in 1..Len(old) : old[i].id = id
          THEN /\ Len(new) = Len(old)
               /\ \E i \in 1..Len(old) :
                    /\ old[i].id = id
                    /\ DOMAIN new[i] = DOMAIN old[i] \cup DOMAIN partial
                    /\ \A f \in DOMAIN partial : new[i][f] = partial[f]
                    /\ \A f \in DOMAIN old[i] \ DOMAIN partial : new[i][f] = old[i][f]
                    /\ \A j \in 1..Len(old) : j # i => new[j] = old[j]
          ELSE /\ new = old
               /\ pendingSaves' = pendingSaves

\* C5: updateTemplate(id, partial) gives the user entry with that id the
\* partial's fields and keeps its other fields, its position and every other
\* entry; with no such user entry nothing changes and nothing is saved.
C5_UpdateMergesOrDoesNothing ==
  [][ \A id \in UpdateIdInputs, partial \in PartialInputs :
        updateTemplate(id, partial) => UpdatePost(id, partial) ]_vars

\* an update has merged a name and content into the default entry, whose
\* description is still the original one
C5_Witness ==
  /\ returned.op = "updateTemplate"
  /\ \E i \in 1..Len(settings.templates) :
        /\ settings.templates[i].name = "Updated Name"
        /\ settings.templates[i].content = "Updated content"
        /\ settings.templates[i].description = getDefaultTemplates[1].description

\* C6: createTemplateFromCurrent returns a template whose id no template had
\* before the call and makes the user list one longer; without a style the
\* new entry carries the current default theme color and margins.
C6_CreateAddsFreshEntry ==
  [][ \A style \in StyleInputs :
        createTemplateFromCurrent("Current Template", "Created from current content",
                                  "# Current CV Content", style) =>
          /\ returned'.value.id \notin (BuiltinIds \cup UserIds)
          /\ Len(settings'.templates) = Len(settings.templates) + 1
          /\ style = Undefined =>
               /\ returned'.value.style.theme.primaryColor = settings.defaultThemeColor
               /\ returned'.value.style.margins = settings.defaultMargins ]_vars

----------------------------------------------------------------------------
(* Export properties *)

\* the exports of the editing session that are still in flight
SessionExports == { r \in rasterizing : r.source = previewEl }

\* C7: at most one export of an editing session is in flight.
C7_OneExportInFlight == Cardinality(SessionExports) <= 1

\* C8: no step of an export changes the live preview tree, and no step
\* changes the clone of an export that stays in flight.
C8_ExportMutatesOnlyItsClone ==
  [][ /\ dom'[previewEl] = dom[previewEl]
      /\ \A r \in rasterizing \cap rasterizing' : dom'[r.el] = dom[r.el] ]_vars

\* two exports overlap, each on a styled clone that differs from the preview
C8_Witness ==
  /\ Cardinality(rasterizing) = 2
  /\ \A r \in rasterizing :
        /\ r.el # previewEl
        /\ "oh-my-cv-export" \in dom[r.el].classes
        /\ dom[r.el] # dom[previewEl]

\* C9: exportToPDF never rejects and returns a result whose success flag is
\* true when the rasterizer resolved, and false with the rasterizer's message
\* when it rejected.
C9_StructuredResult ==
  /\ exportResult.rejected = FALSE
  /\ exportResult.outcome = "resolved" =>
       /\ "success" \in DOMAIN exportResult.value
       /\ exportResult.value.success = TRUE
  /\ exportResult.outcome = "rejected" =>
       /\ {"success", "error"} \subseteq DOMAIN exportResult.value
       /\ exportResult.value.success = FALSE
       /\ exportResult.value.error.message = exportResult.message

\* the fields ExportOptions requires
RequiredExportFields ==
  {"filename", "pageSize", "orientation", "margins", "includeHeader",
   "includeFooter", "includePageNumbers"}

\* C10: page size, orientation and margins of the merged options come from
\* the explicit options, else from the document metadata, else from the
\* global defaults, and the merged options are complete.
C10_MergePrecedence ==
  /\ exportResult.outcome # "threw"
  /\ \A r \in rasterizing :
       LET explicit == r.request.options
           metadata == r.request.metadata
           merged == r.exportOptions
       IN /\ RequiredExportFields \subseteq DOMAIN merged
          /\ merged.pageSize =
               IF "pageSize" \in DOMAIN explicit THEN explicit.pageSize
               ELSE IF "pageSize" \in DOMAIN metadata THEN metadata.pageSize
               ELSE settings.defaultPageSize
          /\ merged.orientation =
               IF "orientation" \in DOMAIN explicit THEN explicit.orientation
               ELSE IF "orientation" \in DOMAIN metadata THEN metadata.orientation
               ELSE "portrait"
          /\ merged.margins =
               IF "margins" \in DOMAIN explicit THEN explicit.margins
               ELSE IF "margins" \in DOMAIN metadata THEN metadata.margins
               ELSE settings.defaultMargins

----------------------------------------------------------------------------
(* Export dialog and last-used options *)

\* C11: every export request that reaches the rasterizer leaves the stored
\* last-used options equal to the merged options of that export.
C11_LastUsedOptionsStored ==
  [][ \A r \in rasterizing' \ rasterizing : lastExportOptions' = r.exportOptions ]_vars

----------------------------------------------------------------------------
(* Rasterizer configuration *)

\* C12: when the merged margins are all at least 0, the margin field handed
\* to the rasterizer is the tuple top, right, bottom, left of those margins.
C12_MarginTuple ==
  \A r \in rasterizing :
    LET m == r.exportOptions.margins
    IN (m.top >= 0 /\ m.right >= 0 /\ m.bottom >= 0 /\ m.left >= 0) =>
         /\ Len(r.options.margin) = 4
         /\ r.options.margin[1] = m.top
         /\ r.options.margin[2] = m.right
         /\ r.options.margin[3] = m.bottom
         /\ r.options.margin[4] = m.left

\* an export is in flight whose four margins differ, one of them 0
C12_Witness ==
  \E r \in rasterizing :
    LET m == r.exportOptions.margins
    IN /\ Cardinality({m.top, m.right, m.bottom, m.left}) = 4
       /\ m.top = 0
       /\ r.options.margin = <<0, m.right, m.bottom, m.left>>

\* C13: for a supplied image quality q in 0..100 the image quality of the
\* rasterizer configuration is q/100.
C13_ImageQualityFraction ==
  \A r \in rasterizing :
    ("imageQuality" \in DOMAIN r.request.options
       /\ r.request.options.imageQuality \in 0..100) =>
      r.options.image.quality.num * 100
        = r.request.options.imageQuality * r.options.image.quality.den

----------------------------------------------------------------------------
(* Export styling *)

\* the nodes of the tree an export hands to the rasterizer, root excluded
ExportedNodes(r) == Descendants(dom[r.el].kids)

IsPageBreakIndicator(node) ==
  "oh-my-cv-page-break-indicator" \in node.classes \/ node.text = "Page Break"

\* C14: in every exported tree each page-break marker forces a break after
\* it, and no page-break indicator node or text is left.
C14_PageBreaksForcedIndicatorsStripped ==
  \A r \in rasterizing :
    \A i \in 1..Len(ExportedNodes(r)) :
      LET node == ExportedNodes(r)[i]
      IN /\ "oh-my-cv-page-break" \in node.classes =>
              /\ {"page-break-after", "break-after"} \subseteq DOMAIN node.style
              /\ node.style["page-break-after"] = "always"
              /\ node.style["break-after"] = "page"
         /\ ~IsPageBreakIndicator(node)

\* an export of a preview that shows a page-break indicator is in flight
C14_Witness ==
  /\ \E i \in 1..Len(Descendants(dom[previewEl].kids)) :
       IsPageBreakIndicator(Descendants(dom[previewEl].kids)[i])
  /\ \E r \in rasterizing :
       /\ r.source = previewEl
       /\ \E i \in 1..Len(ExportedNodes(r)) :
            "oh-my-cv-page-break" \in ExportedNodes(r)[i].classes

\* C15: in every exported tree each heading of level 1, 2 or 3 avoids a
\* break after it and each list item avoids a break inside it.
C15_HeadingsAndItemsKeptTogether ==
  \A r \in rasterizing :
    \A i \in 1..Len(ExportedNodes(r)) :
      LET node == ExportedNodes(r)[i]
      IN /\ node.tag \in {"h1", "h2", "h3"} =>
              /\ "break-after" \in DOMAIN node.style
              /\ node.style["break-after"] = "avoid"
         /\ node.tag = "li" =>
              /\ "break-inside" \in DOMAIN node.style
              /\ node.style["break-inside"] = "avoid"

\* the links of a sequence of nodes, in document order
Links(nodes) == SelectSeq(nodes, LAMBDA n : n.tag = "a" /\ "href" \in DOMAIN n.attrs)

\* scheme://...
IsAbsoluteURL(target) == IndexOf(target, "://", 1) > 1

\* the target a link must have in the exported tree
ExportedTarget(target) ==
  IF StartsWith(target, "#") \/ StartsWith(target, "mailto:") \/ IsAbsoluteURL(target)
    THEN target
    ELSE "https://" \o target

\* C16: in the exported tree anchors, mailto: targets and absolute URLs of
\* any scheme are unchanged and every other target t is https://t; styling
\* the exported tree once more changes no link target.
C16_LinkTargets ==
  \A r \in SessionExports :
    LET before == Links(Descendants(dom[previewEl].kids))
        after == Links(ExportedNodes(r))
        again == Links(Descendants(
                   applyExportStyling(dom[r.el], r.request.metadata, Undefined).kids))
    IN /\ Len(after) = Len(before)
       /\ \A i \in 1..Len(before) :
            after[i].attrs.href = ExportedTarget(before[i].attrs.href)
       /\ Len(again) = Len(after)
       /\ \A i \in 1..Len(after) : again[i].attrs.href = after[i].attrs.href

----------------------------------------------------------------------------
(* Style resolution *)

\* the first of the template's, the metadata's and the global value that is there
Resolved(fromTemplate, fromMetadata, global) ==
  FirstOf(<<fromTemplate, fromMetadata, <<global>> >>)

\* C17: primary color, body font, font size and line height of the tree
\* generateHTML styles are the template theme's value when it has one, else
\* the metadata's, else the global setting's; text, background and link
\* color are the template theme's when it has them.
C17_StylePrecedence ==
  (returned.op = "generateHTML" /\ "metadata" \in DOMAIN returned.document) =>
    LET theme == IF TemplateTheme(returned.template) # << >>
                   THEN TemplateTheme(returned.template)[1] ELSE EmptyObject
        metadata == returned.document.metadata
        style == returned.value.style
        links == Links(Descendants(returned.value.kids))
    IN /\ style["--theme-color"] =
            Resolved(StrMaybe(theme, "primaryColor"), StrMaybe(metadata, "themeColor"),
                     settings.defaultThemeColor)
       /\ style["font-family"] =
            Resolved(StrMaybe(theme, "bodyFont"), StrMaybe(metadata, "fontFamily"),
                     settings.defaultFontFamily)
       /\ style["font-size"] =
            Resolved(StrMaybe(theme, "fontSize"),
                     IF "fontSize" \in DOMAIN metadata
                       THEN <<ToString(metadata.fontSize) \o "pt">> ELSE << >>,
                     ToString(settings.defaultFontSize) \o "pt")
       /\ style["line-height"] =
            Resolved(StrMaybe(theme, "lineHeight"), StrMaybe(metadata, "lineHeight"),
                     settings.defaultLineHeight)
       /\ StrMaybe(theme, "textColor") # << >> => style["color"] = theme.textColor
       /\ StrMaybe(theme, "backgroundColor") # << >> =>
            style["background-color"] = theme.backgroundColor
       /\ StrMaybe(theme, "linkColor") # << >> =>
            \A i \in 1..Len(links) : links[i].style["color"] = theme.linkColor

\* the style properties applyExportStyling writes on the root of the tree
RootStyleProperties ==
  {"font-family", "font-size", "line-height", "color", "background-color", "--theme-color"}

\* C18: whatever template and metadata fields are there, the styled tree has
\* a value for every root style property and a color on every link.
C18_CompleteTheme ==
  (returned.op = "generateHTML" /\ "metadata" \in DOMAIN returned.document) =>
    LET links == Links(Descendants(returned.value.kids))
    IN /\ \A p \in RootStyleProperties :
            p \in DOMAIN returned.value.style /\ returned.value.style[p] # ""
       /\ \A i \in 1..Len(links) :
            "color" \in DOMAIN links[i].style /\ links[i].style["color"] # ""

----------------------------------------------------------------------------
(* The two transformers *)

\* the classes the directives put on the nodes they produce
DirectiveClasses ==
  {"oh-my-cv-page-break", "oh-my-cv-tag", "oh-my-cv-skill", "oh-my-cv-skill-name",
   "oh-my-cv-skill-level", "oh-my-cv-date-range", "oh-my-cv-date-start",
   "oh-my-cv-date-end", "small-caps"}

\* the nodes the backslash directives produced in a tree, in document order,
\* each as its tag, its directive classes and its text.  Bold and italic
\* are left out: Markdown emphasis produces the same elements.
DirectiveNodes(kids) ==
  LET produced == SelectSeq(Descendants(kids),
                    LAMBDA n : n.classes \cap DirectiveClasses # {} \/ n.tag = "u")
  IN [ i \in 1..Len(produced) |->
         [tag |-> produced[i].tag,
          classes |-> produced[i].classes \cap DirectiveClasses,
          text |-> produced[i].text] ]

\* C19: the tree generateHTML builds for a text holds the same directive
\* nodes as the tree the preview transformer's markup gives for that text.
C19_SameDirectivesAsPreview ==
  returned.op = "generateHTML" =>
    DirectiveNodes(returned.value.kids)
      = DirectiveNodes(ParseHTML(processLatexStyleCommands(returned.document.content)))

\* an editor text whose directives have empty or unbalanced braces
MalformedText == "\\cvtag{} \\textit{x"

\* the preview shows the error message of renderMarkdown's catch block
ShowsRenderError(tree) ==
  \E i \in 1..Len(Descendants(tree.kids)) :
    "oh-my-cv-error" \in Descendants(tree.kids)[i].classes

\* C20: a render of text with malformed directives hands that text to the
\* renderer as it is, and no step leaves the preview in an error state.
C20_NeverFailsObservably ==
  [][ /\ ( /\ Len(rendering') = Len(rendering) + 1
           /\ currentDocument' # Null
           /\ currentDocument'.content = MalformedText )
         => rendering'[Len(rendering')].markdown = MalformedText
      /\ ~ShowsRenderError(dom'[previewEl]) ]_vars

----------------------------------------------------------------------------
(* The casing normalizer as a function of its argument *)

\* words with and without a rule, in several casings, and words a wildcard
\* dot or a rule that inserts a boundary applies to
CasingWords ==
  { "GIT", "nodejs", "react js", "vue_js", "tailwindcss", "Apis", "mygit" }

CasingSeparators == { " ", ".", "-" }

\* the texts handed to applyCasingRules
CasingTexts ==
  { first \o separator \o second :
      first \in CasingWords, separator \in CasingSeparators, second \in CasingWords }

MarkdownService_applyCasingRules(content) ==
  /\ returned' = [op |-> "applyCasingRules", content |-> content,
                  value |-> applyCasingRules(content)]
  /\ UNCHANGED <<DEFAULT_TEMPLATES, DEFAULT_SETTINGS, settings, sharedTemplates,
                 pendingSaves, savedData, now, exportVars, storageVars>>

NextCasing == \E content \in CasingTexts : MarkdownService_applyCasingRules(content)

SpecCasing == Init /\ [][NextCasing]_vars

\* C21: applying the casing rules to the normalizer's output gives that
\* output again.
C21_CasingIdempotent ==
  returned.op = "applyCasingRules" => applyCasingRules(returned.value) = returned.value

\* the normalizer has rewritten a text, inserting a dot and a space
C21_Witness ==
  /\ returned.op = "applyCasingRules"
  /\ returned.content = "nodejs tailwindcss"
  /\ returned.value = "Node.js Tailwind CSS"

----------------------------------------------------------------------------
(* The yaml package as StorageService uses it: YAML.stringify of a          *)
(* CVMetadata object and YAML.parse of a frontmatter block.  A mapping is   *)
(* written one "key: value" line per property, a nested mapping indented by *)
(* two spaces under "key:", a string of several lines as a "|-" block       *)
(* scalar indented by two spaces, and a string that would not read back as  *)
(* itself in double quotes with \\ \" and \n escaped.  Strings that end in  *)
(* a line break (block scalars with "|" or "|+") are outside the inputs.    *)

\* the properties of CVMetadata in declaration order, then those of margins
MetadataKeys ==
  <<"title", "lastModified", "pageSize", "orientation", "margins", "themeColor",
    "fontFamily", "fontSize", "lineHeight", "customCss">>

MarginKeys == <<"top", "right", "bottom", "left">>

\* properties whose value is a number / a nested mapping
NumberKeys == {"lastModified", "fontSize", "top", "right", "bottom", "left"}

MappingKeys == {"margins"}

YAMLIndent == "  "

\* text.split('\n')
RECURSIVE SplitLines(_)

SplitLines(text) ==
  CHOOSE lines \in
    { IF at = 0 THEN <<text>>
      ELSE <<SubSeq(text, 1, at - 1)>> \o SplitLines(SubSeq(text, at + 1, Len(text))) :
        at \in {IndexOf(text, "\n", 1)} } : TRUE

\* lines.join(sep)
RECURSIVE JoinLines(_, _)

JoinLines(lines, sep) ==
  IF Len(lines) = 0 THEN ""
  ELSE IF Len(lines) = 1 THEN lines[1]
  ELSE lines[1] \o sep \o JoinLines(Tail(lines), sep)

\* a plain scalar made of digits only reads back as an integer, and one of the
\* form digits.digits as a float (floats are kept as text)
IsIntegerText(s) == s # "" /\ \A k \in 1..Len(s) : Ch(s, k) \in Digits

IsFloatText(s) ==
  \E dot \in 2..(Len(s) - 1) :
    /\ Ch(s, dot) = "."
    /\ IsIntegerText(SubSeq(s, 1, dot - 1))
    /\ IsIntegerText(SubSeq(s, dot + 1, Len(s)))

\* the characters a plain scalar may not start with
PlainStartForbidden ==
  {"\n", "\t", " ", ",", "[", "]", "{", "}", "#", "&", "*", "!", "|", ">", "'", "\"",
   "%", "@"}

\* plainString's test: the string has to be quoted to read back as itself
PlainUnsafe(s) ==
  \/ s = ""
  \/ Ch(s, 1) \in PlainStartForbidden
  \/ s \in {"?", "-"}
  \/ (Ch(s, 1) \in {"?", "-"} /\ Ch(s, 2) \in {" ", "\t"})
  \/ \E k \in 1..Len(s) : Ch(s, k) \in {"\n", ":"} /\ Ch(s, k + 1) \in {" ", "\t"}
  \/ \E k \in 1..Len(s) : Ch(s, k) \in {" ", "\t"} /\ Ch(s, k + 1) = "\n"
  \/ \E k \in 1..Len(s) : Ch(s, k) \in {"\n", "\t", " "} /\ Ch(s, k + 1) = "#"
  \/ Ch(s, Len(s)) \in {"\n", "\t", " ", ":"}
  \/ IsIntegerText(s) \/ IsFloatText(s) \/ s \in {"true", "false", "null", "~"}

\* doubleQuotedString: JSON.stringify for a short string
DoubleQuoted(s) ==
  "\"" \o ReplaceEach(s, << <<Literal("\\"), <<"\\\\">> >>,
                            <<Literal("\""), <<"\\\"">> >>,
                            <<Literal("\n"), <<"\\n">> >> >>) \o "\""

\* blockString: "|-" and the lines of the string, each indented
RECURSIVE IndentLines(_, _)

IndentLines(lines, indent) ==
  IF Len(lines) = 0 THEN ""
  ELSE "\n" \o (IF lines[1] = "" THEN "" ELSE indent \o lines[1])
         \o IndentLines(Tail(lines), indent)

BlockLiteral(s, indent) == "|-" \o IndentLines(SplitLines(s), indent)

\* stringifyString
StringifyString(s, indent) ==
  IF PlainUnsafe(s) THEN DoubleQuoted(s)
  ELSE IF HasNewline(s, 1, Len(s)) THEN BlockLiteral(s, indent)
  ELSE s

\* a mapping of numbers, one line per property
RECURSIVE StringifyNumbers(_, _, _)

StringifyNumbers(object, keys, indent) ==
  IF Len(keys) = 0 THEN ""
  ELSE (IF keys[1] \in DOMAIN object
          THEN indent \o keys[1] \o ": " \o ToString(object[keys[1]]) \o "\n"
          ELSE "")
         \o StringifyNumbers(object, Tail(keys), indent)

\* stringifyPair for one property of the metadata
StringifyPair(key, value) ==
  IF key \in MappingKeys
    THEN key \o ":\n" \o StringifyNumbers(value, MarginKeys, YAMLIndent)
  ELSE IF key \in NumberKeys THEN key \o ": " \o ToString(value) \o "\n"
  ELSE IF key = "lineHeight" THEN key \o ": " \o value \o "\n"
  ELSE key \o ": " \o StringifyString(value, YAMLIndent) \o "\n"

RECURSIVE StringifyPairs(_, _)

StringifyPairs(metadata, keys) ==
  IF Len(keys) = 0 THEN ""
  ELSE (IF keys[1] \in DOMAIN metadata
          THEN StringifyPair(keys[1], metadata[keys[1]])
          ELSE "")
         \o StringifyPairs(metadata, Tail(keys))

\* YAML.stringify(metadata)
YAML_stringify(metadata) == StringifyPairs(metadata, MetadataKeys)

\* the text of a double-quoted scalar without its quotes, escapes resolved
RECURSIVE Unescape(_)

Unescape(s) ==
  IF s = "" THEN ""
  ELSE IF Ch(s, 1) = "\\" /\ Len(s) >= 2
    THEN (IF Ch(s, 2) = "n" THEN "\n" ELSE Ch(s, 2)) \o Unescape(SubSeq(s, 3, Len(s)))
  ELSE Ch(s, 1) \o Unescape(SubSeq(s, 2, Len(s)))

\* the value of a scalar written on the line of its key
ParseScalar(text) ==
  IF Ch(text, 1) = "\"" /\ Len(text) >= 2 /\ Ch(text, Len(text)) = "\""
    THEN Unescape(SubSeq(text, 2, Len(text) - 1))
  ELSE IF IsIntegerText(text) THEN ParseInt(text)
  ELSE text

\* a line that continues the value of the key above it: indented, or empty
\* inside a block
IsIndented(line) == MatchesAt(line, 1, YAMLIndent)

\* the last of the lines after line i that belong to the value started on line i
RECURSIVE ValueEnd(_, _)

ValueEnd(lines, i) ==
  IF i + 1 <= Len(lines) /\ (IsIndented(lines[i + 1])
                              \/ (lines[i + 1] = "" /\ i + 2 <= Len(lines)
                                  /\ IsIndented(lines[i + 2])))
    THEN ValueEnd(lines, i + 1)
    ELSE i

Deindent(lines) ==
  [k \in 1..Len(lines) |-> SubSeq(lines[k], Len(YAMLIndent) + 1, Len(lines[k]))]

\* the mapping written on lines i.. of the block; ParseEntry reads the entry
\* of line i, whose key ends at colon and whose value ends on line last
RECURSIVE ParseMapping(_, _)
RECURSIVE ParseEntry(_, _, _, _)

ParseEntry(lines, i, colon, last) ==
  (SubSeq(lines[i], 1, colon - 1) :>
     (IF colon = Len(lines[i])
        THEN ParseMapping(Deindent(SubSeq(lines, i + 1, last)), 1)
      ELSE IF SubSeq(lines[i], colon + 2, Len(lines[i])) = "|-"
        THEN JoinLines(Deindent(SubSeq(lines, i + 1, last)), "\n")
      ELSE ParseScalar(SubSeq(lines[i], colon + 2, Len(lines[i])))))
    @@ ParseMapping(lines, last + 1)

ParseMapping(lines, i) ==
  IF i > Len(lines) THEN EmptyObject
  ELSE CHOOSE mapping \in
         { IF colon = 0 THEN EmptyObject ELSE ParseEntry(lines, i, colon, last) :
             colon \in {IndexOf(lines[i], ":", 1)}, last \in {ValueEnd(lines, i)} } : TRUE

\* YAML.parse(frontmatter)
YAML_parse(frontmatter) == ParseMapping(SplitLines(frontmatter), 1)

----------------------------------------------------------------------------
(* services/storage-service.ts: StorageService.  A call that waits for the  *)
(* vault is kept in vaultCalls until the vault settles it; the vault may    *)
(* fail any request.  returned holds the call, what the vault threw         *)
(* (thrown) and what the caller received (outcome, value or error).         *)

CV_FILE_EXTENSION == ".cv.md"

DEFAULT_CV_FOLDER == "CVs"

\* the error a failing vault request rejects with
VaultError == "Error: EIO"

\* String.prototype.trim
Trim(s) ==
  CHOOSE trimmed \in
    { IF kept = {} THEN ""
      ELSE SubSeq(s, Least(kept), -Least({ -k : k \in kept })) :
        kept \in {{ k \in 1..Len(s) : ~IsWhitespace(Ch(s, k)) }} } : TRUE

\* the match of /^---\n([\s\S]*)\n---/
FRONTMATTER_REGEX_greedy(text) ==
  IF MatchesAt(text, 1, "---\n") /\ IndexOf(text, "\n---", 5) > 0
    THEN -Least({ -p : p \in { q \in 5..Len(text) : MatchesAt(text, q, "\n---") } })
    ELSE 0

\* /^---\n([\s\S]*?)\n---/ : the position of the line break that ends the
\* frontmatter, 0 when the text does not match
FRONTMATTER_REGEX(text) ==
  IF MatchesAt(text, 1, "---\n") THEN IndexOf(text, "\n---", 5) ELSE 0

\* `---\n${YAML.stringify(metadata)}---\n\n${content}`
FileContent(metadata, content) ==
  "---\n" \o YAML_stringify(metadata) \o "---\n\n" \o content

\* title.replace(/[\\/:*?"<>|]/g, '-')
SanitizeTitle(title) ==
  ReplaceEach(title, << <<Literal("\\"), <<"-">> >>, <<Literal("/"), <<"-">> >>,
                        <<Literal(":"), <<"-">> >>, <<Literal("*"), <<"-">> >>,
                        <<Literal("?"), <<"-">> >>, <<Literal("\""), <<"-">> >>,
                        <<Literal("<"), <<"-">> >>, <<Literal(">"), <<"-">> >>,
                        <<Literal("|"), <<"-">> >> >>)

CVPath(folderPath, title) == folderPath \o "/" \o SanitizeTitle(title) \o CV_FILE_EXTENSION

\* what loadCV makes of the text of a file whose frontmatter ends at position end
ParsedCV(filePath, fileContent, end) ==
  [path |-> filePath,
   metadata |-> YAML_parse(SubSeq(fileContent, 5, end - 1)),
   content |-> Trim(SubSeq(fileContent, end + 4, Len(fileContent)))]

Rejected(error) == [outcome |-> "rejected", error |-> error]

Fulfilled(value) == [outcome |-> "resolved", value |-> value]

\* the promise loadCV(filePath) settles with; readFails: vault.read rejects
LoadCV(files, filePath, readFails) ==
  IF filePath \notin DOMAIN files
    THEN Rejected("Error: File " \o filePath \o " not found or is not a file.")
  ELSE IF readFails THEN Rejected(VaultError)
  ELSE CHOOSE settled \in
         { IF end = 0
             THEN Rejected("Error: File " \o filePath
                             \o " does not contain valid frontmatter.")
             ELSE Fulfilled(ParsedCV(filePath, files[filePath], end)) :
               end \in {FRONTMATTER_REGEX(files[filePath])} } : TRUE

\* the variables no storage operation touches
storageFrame ==
  <<DEFAULT_TEMPLATES, DEFAULT_SETTINGS, settings, sharedTemplates, pendingSaves, savedData, now,
    dom, rasterizing, exportResult, lastExportOptions, rendering, editorValue>>

\* the metadata createCV writes: the defaults of the settings, then the caller's
FullMetadata(title, metadata) ==
  Spread([title |-> title, lastModified |-> now,
          pageSize |-> settings.defaultPageSize,
          margins |-> settings.defaultMargins,
          themeColor |-> settings.defaultThemeColor,
          fontFamily |-> settings.defaultFontFamily,
          fontSize |-> settings.defaultFontSize,
          lineHeight |-> settings.defaultLineHeight], metadata)

\* createCV(title, content, metadata); fails: the vault rejects the request
StorageService_createCV(title, content, metadata, fails) ==
  LET filePath == CVPath(DEFAULT_CV_FOLDER, title)
      created == [path |-> filePath, metadata |-> FullMetadata(title, metadata),
                  content |-> content]
  IN /\ IF filePath \in DOMAIN vault
          THEN /\ returned' = [op |-> "createCV", thrown |-> << >>]
                    @@ Rejected("Error: A CV with the title \"" \o title
                                  \o "\" already exists.")
               /\ UNCHANGED vault
          ELSE IF fails
            THEN /\ returned' = [op |-> "createCV", thrown |-> <<VaultError>>]
                      @@ Rejected(VaultError)
                 /\ UNCHANGED vault
            ELSE /\ returned' = [op |-> "createCV", thrown |-> << >>] @@ Fulfilled(created)
                 /\ vault' = (filePath :> FileContent(created.metadata, content)) @@ vault
     /\ UNCHANGED <<storageFrame, currentDocument, vaultCalls, unsavedChanges>>

\* loadCV(filePath); fails: vault.read rejects
StorageService_loadCV(filePath, fails) ==
  /\ returned' = [op |-> "loadCV",
                  thrown |-> IF fails /\ filePath \in DOMAIN vault
                               THEN <<VaultError>> ELSE << >>]
                   @@ LoadCV(vault, filePath, fails)
  /\ UNCHANGED <<storageFrame, currentDocument, vault, vaultCalls, unsavedChanges>>

\* saveCV(document) up to its await: the document gets its time stamp, in place,
\* and the text is handed to vault.modify.  caller is "view" when the call is
\* CVEditorView.saveDocument's
saveCV(document, caller) ==
  /\ Len(vaultCalls) < MaxCalls
  /\ vaultCalls' =
       Append(vaultCalls,
              [op |-> "saveCV", caller |-> caller,
               document |-> [document EXCEPT !.metadata.lastModified = now],
               text |-> FileContent([document.metadata EXCEPT !.lastModified = now],
                                    document.content)])

StorageService_saveCV(document) ==
  /\ saveCV(document, "host")
  /\ returned' = [op |-> "saveCV", outcome |-> "pending"]
  /\ UNCHANGED <<storageFrame, currentDocument, vault, unsavedChanges>>

\* deleteCV(filePath); fails: vault.delete rejects
StorageService_deleteCV(filePath, fails) ==
  /\ IF filePath \notin DOMAIN vault
       THEN /\ returned' = [op |-> "deleteCV", thrown |-> << >>]
                 @@ Rejected("Error: File " \o filePath \o " not found or is not a file.")
            /\ UNCHANGED vault
       ELSE IF fails
         THEN /\ returned' = [op |-> "deleteCV", thrown |-> <<VaultError>>]
                   @@ Rejected(VaultError)
              /\ UNCHANGED vault
         ELSE /\ returned' = [op |-> "deleteCV", thrown |-> << >>] @@ Fulfilled(Undefined)
              /\ vault' = [path \in DOMAIN vault \ {filePath} |-> vault[path]]
  /\ UNCHANGED <<storageFrame, currentDocument, vaultCalls, unsavedChanges>>

\* file.path.endsWith(CV_FILE_EXTENSION)
IsCVFile(path) ==
  /\ Len(path) >= Len(CV_FILE_EXTENSION)
  /\ SubSeq(path, Len(path) - Len(CV_FILE_EXTENSION) + 1, Len(path)) = CV_FILE_EXTENSION

\* getAllCVs(): the documents of the files that load, as a set (the order is the
\* folder's).  folderFails: the folder cannot be made; unreadable: the files
\* vault.read rejects
StorageService_getAllCVs(folderFails, unreadable) ==
  /\ returned' =
       [op |-> "getAllCVs",
        thrown |-> IF folderFails \/ unreadable # {} THEN <<VaultError>> ELSE << >>]
         @@ Fulfilled(IF folderFails THEN {}
                      ELSE { loaded.value :
                               loaded \in { settled \in { LoadCV(vault, path,
                                                                 path \in unreadable) :
                                                            path \in { p \in DOMAIN vault :
                                                                         IsCVFile(p) } } :
                                              settled.outcome = "resolved" } })
  /\ UNCHANGED <<storageFrame, currentDocument, vault, vaultCalls, unsavedChanges>>

\* oldPath.substring(0, oldPath.lastIndexOf('/'))
FolderOf(path) ==
  SubSeq(path, 1, -Least({ -k : k \in { j \in 0..Len(path) : j = 0 \/ Ch(path, j) = "/" } }) - 1)

\* renameCV(oldPath, newTitle) up to vault.create; readFails: vault.read rejects
StorageService_renameCV(oldPath, newTitle, readFails) ==
  \E loaded \in {LoadCV(vault, oldPath, readFails)},
     newPath \in {CVPath(FolderOf(oldPath), newTitle)} :
    /\ Len(vaultCalls) < MaxCalls
    /\ IF loaded.outcome = "rejected"
         THEN /\ returned' = [op |-> "renameCV", oldPath |-> oldPath,
                              newPath |-> newPath,
                              thrown |-> IF readFails /\ oldPath \in DOMAIN vault
                                           THEN <<VaultError>> ELSE << >>] @@ loaded
              /\ UNCHANGED vaultCalls
         ELSE IF newPath \in DOMAIN vault
           THEN /\ returned' = [op |-> "renameCV", oldPath |-> oldPath,
                                newPath |-> newPath, thrown |-> << >>]
                     @@ Rejected("Error: A CV with the title \"" \o newTitle
                                   \o "\" already exists.")
                /\ UNCHANGED vaultCalls
           ELSE /\ returned' = [op |-> "renameCV", oldPath |-> oldPath,
                                newPath |-> newPath, outcome |-> "pending"]
                /\ \E metadata \in {[title |-> newTitle, lastModified |-> now]
                                      @@ loaded.value.metadata} :
                     vaultCalls' =
                       Append(vaultCalls,
                              [op |-> "renameCV", stage |-> "create",
                               oldPath |-> oldPath, newPath |-> newPath,
                               document |-> [loaded.value EXCEPT !.metadata = metadata],
                               text |-> FileContent(metadata, loaded.value.content)])
    /\ UNCHANGED <<storageFrame, currentDocument, vault, unsavedChanges>>

Settled_deleteFirst(files, call) ==
  IF call.op = "saveCV" THEN [files EXCEPT ![call.document.path] = call.text]
  ELSE IF call.stage = "create"
    THEN [path \in DOMAIN files \ {call.oldPath} |-> files[path]]
  ELSE (call.newPath :> call.text) @@ files

\* the files after the vault has carried out the request of a call: saveCV's
\* vault.modify, renameCV's vault.create and then its vault.delete
Settled(files, call) ==
  IF call.op = "saveCV" THEN [files EXCEPT ![call.document.path] = call.text]
  ELSE IF call.stage = "create" THEN (call.newPath :> call.text) @@ files
  ELSE [path \in DOMAIN files \ {call.oldPath} |-> files[path]]

\* the vault settles the request call i waits for; fails: it rejects
vaultSettles(i, fails) ==
  LET call == vaultCalls[i]
      failed == \/ fails
                \/ call.op = "saveCV" /\ call.document.path \notin DOMAIN vault
                \/ call.op = "renameCV" /\ call.stage = "create"
                     /\ call.newPath \in DOMAIN vault
                \/ call.op = "renameCV" /\ call.stage = "delete"
                     /\ call.oldPath \notin DOMAIN vault
      result == [op |-> call.op, thrown |-> IF failed THEN <<VaultError>> ELSE << >>]
  IN /\ i \in 1..Len(vaultCalls)
     /\ vault' = IF failed THEN vault ELSE Settled(vault, call)
     /\ vaultCalls' =
          IF ~failed /\ call.op = "renameCV" /\ call.stage = "create"
            THEN [vaultCalls EXCEPT ![i].stage = "delete"]
            ELSE RemoveAt(vaultCalls, i)
     /\ returned' =
          IF call.op = "saveCV" /\ call.caller = "view"
            \* saveDocument's catch block logs the error; its promise resolves
            THEN [op |-> "saveDocument", thrown |-> result.thrown]
                   @@ Fulfilled(Undefined)
          ELSE IF failed
            THEN (IF call.op = "renameCV"
                    THEN [oldPath |-> call.oldPath, newPath |-> call.newPath]
                    ELSE << >>) @@ result @@ Rejected(VaultError)
          ELSE IF call.op = "saveCV" THEN result @@ Fulfilled(call.document)
          ELSE IF call.stage = "create"
            THEN [op |-> "renameCV", oldPath |-> call.oldPath, newPath |-> call.newPath,
                  outcome |-> "pending"]
          ELSE [oldPath |-> call.oldPath, newPath |-> call.newPath] @@ result
                 @@ Fulfilled([call.document EXCEPT !.path = call.newPath])
     /\ unsavedChanges' =
          IF call.op = "saveCV" /\ call.caller = "view" /\ ~failed
            THEN FALSE ELSE unsavedChanges
     /\ UNCHANGED <<storageFrame, currentDocument>>

----------------------------------------------------------------------------
(* Saving and loading one document *)

MyCVPath == CVPath(DEFAULT_CV_FOLDER, "My CV")

\* documents handed to saveCV: titles, style sheets and contents with and
\* without a line "---"
RoundTripDocuments ==
  { [path |-> MyCVPath,
     metadata |-> Spread([MetadataCreated EXCEPT !.title = title], css),
     content |-> content] :
      title \in {"My CV", "---"},
      css \in {EmptyObject, [customCss |-> "h1 {}\n---\n--- x"]},
      content \in {"---\n# CV", "# CV\n\n---\n\nmore\n"} }

NextRoundTrip ==
  \/ \E content \in {"", "---"}, fails \in BOOLEAN :
       StorageService_createCV("My CV", content, EmptyObject, fails)
  \/ \E document \in RoundTripDocuments : StorageService_saveCV(document)
  \/ \E i \in 1..Len(vaultCalls), fails \in BOOLEAN : vaultSettles(i, fails)
  \/ \E fails \in BOOLEAN : StorageService_loadCV(MyCVPath, fails)

SpecRoundTrip == Init /\ [][NextRoundTrip]_vars

\* C22: the file createCV or saveCV has just written loads as a document with
\* the same metadata and, up to surrounding white space, the same content, also
\* when a metadata string or the content has a line "---".
C22_RoundTrip ==
  (returned.op \in {"createCV", "saveCV"} /\ returned.outcome = "resolved") =>
    \A loaded \in {LoadCV(vault, returned.value.path, FALSE)} :
      /\ loaded.outcome = "resolved"
      /\ loaded.value.metadata = returned.value.metadata
      /\ loaded.value.content = Trim(returned.value.content)

\* a saved document whose title, style sheet and content all have a line "---"
C22_Witness ==
  /\ returned.op = "saveCV"
  /\ returned.outcome = "resolved"
  /\ returned.value.metadata.title = "---"
  /\ "customCss" \in DOMAIN returned.value.metadata
  /\ returned.value.metadata.customCss = "h1 {}\n---\n--- x"
  /\ returned.value.content = "# CV\n\n---\n\nmore\n"
  /\ vault[MyCVPath] = FileContent(returned.value.metadata, returned.value.content)

----------------------------------------------------------------------------
(* ui/cv-editor-view.ts: CVEditorView.saveDocument up to its await *)

CVEditorView_saveDocument ==
  IF currentDocument = Null
    THEN /\ returned' = [op |-> "saveDocument", thrown |-> << >>] @@ Fulfilled(Undefined)
         /\ UNCHANGED <<storageFrame, currentDocument, vault, vaultCalls, unsavedChanges>>
    ELSE /\ saveCV([currentDocument EXCEPT !.content = editorValue], "view")
         /\ currentDocument' = [currentDocument EXCEPT !.content = editorValue,
                                                       !.metadata.lastModified = now]
         /\ returned' = [op |-> "saveDocument", outcome |-> "pending"]
         /\ UNCHANGED <<storageFrame, vault, unsavedChanges>>

----------------------------------------------------------------------------
(* The storage service over a vault that may fail, with one editing session *)

StorageTitles == {"My CV", "a/b", "a:b"}

StoragePaths == { CVPath(DEFAULT_CV_FOLDER, title) : title \in StorageTitles }

\* the document of the editing session, as createCV returned it
SessionDocument == [path |-> MyCVPath, metadata |-> MetadataCreated, content |-> "# CV"]

InitSession ==
  /\ InitRepo
  /\ dom = (previewEl :> PreviewPlain)
  /\ currentDocument = SessionDocument
  /\ rasterizing = {}
  /\ exportResult = NoExportResult
  /\ lastExportOptions = Undefined
  /\ rendering = << >>
  /\ vault = (MyCVPath :> FileContent(MetadataCreated, "# CV"))
  /\ vaultCalls = << >>
  /\ editorValue = "# CV"
  /\ unsavedChanges = FALSE

\* documents the host hands to saveCV
SaveInputs ==
  { [path |-> path, metadata |-> MetadataCreated, content |-> "# CV\n\nsaved"] :
      path \in StoragePaths }

NextStorage ==
  \/ \E fails \in BOOLEAN : StorageService_createCV("a/b", "# CV 2", EmptyObject, fails)
  \/ \E fails \in BOOLEAN : StorageService_loadCV(MyCVPath, fails)
  \/ \E document \in SaveInputs : StorageService_saveCV(document)
  \/ \E path \in StoragePaths, fails \in BOOLEAN : StorageService_deleteCV(path, fails)
  \/ \E folderFails \in BOOLEAN, unreadable \in {{}, {MyCVPath}} :
       StorageService_getAllCVs(folderFails, unreadable)
  \/ \E oldPath \in StoragePaths, newTitle \in StorageTitles, readFails \in BOOLEAN :
       StorageService_renameCV(oldPath, newTitle, readFails)
  \/ CVEditorView_saveDocument
  \/ \E i \in 1..Len(vaultCalls), fails \in BOOLEAN : vaultSettles(i, fails)

SpecStorage == InitSession /\ [][NextStorage]_vars

\* C23: whenever the vault fails a request of a storage operation or of the
\* editing session's save, that call is rejected with the error the vault threw.
C23_SameErrorReachesCaller ==
  ("thrown" \in DOMAIN returned /\ returned.thrown # << >>) =>
    (returned.outcome = "rejected" /\ returned.error = returned.thrown[1])

----------------------------------------------------------------------------
(* services/settings-service.ts: updateSettings, addRecentlyUsedFont *)

\* the properties of OhMyCVSettings
SettingsKeys ==
  {"defaultPageSize", "defaultMargins", "defaultThemeColor", "defaultFontFamily",
   "defaultFontSize", "defaultLineHeight", "enableCustomCss", "defaultCustomCss",
   "autoCasing", "texSupport", "showPageBreaks", "iconSupport", "googleFontsApiKey",
   "recentlyUsedFonts", "templates"}

updateSettings(partial) ==
  /\ pendingSaves < MaxPending
  /\ settings' = Spread(settings, partial)
  /\ sharedTemplates' = (sharedTemplates /\ "templates" \notin DOMAIN partial)
  /\ saveSettings
  /\ returned' = [op |-> "updateSettings"]
  /\ UNCHANGED <<DEFAULT_TEMPLATES, DEFAULT_SETTINGS, now, exportVars, storageVars>>

MAX_RECENT_FONTS == 10

\* recentlyUsedFonts.filter(f => f !== fontName)
RECURSIVE FilterOutFont(_, _)

FilterOutFont(fonts, fontName) ==
  IF Len(fonts) = 0 THEN << >>
  ELSE (IF fonts[1] = fontName THEN << >> ELSE <<fonts[1]>>)
         \o FilterOutFont(Tail(fonts), fontName)

AddedFont_unfiltered(fonts, fontName) ==
  SubSeq(<<fontName>> \o fonts, 1,
         IF Len(fonts) + 1 > MAX_RECENT_FONTS THEN MAX_RECENT_FONTS ELSE Len(fonts) + 1)

\* the list addRecentlyUsedFont leaves behind: filter, unshift, slice(0, 10)
AddedFont(fonts, fontName) ==
  IF Len(FilterOutFont(fonts, fontName)) + 1 > MAX_RECENT_FONTS
    THEN SubSeq(<<fontName>> \o FilterOutFont(fonts, fontName), 1, MAX_RECENT_FONTS)
    ELSE <<fontName>> \o FilterOutFont(fonts, fontName)

addRecentlyUsedFont(fontName) ==
  /\ pendingSaves < MaxPending
  /\ settings' = [settings EXCEPT
                    !.recentlyUsedFonts = AddedFont(settings.recentlyUsedFonts, fontName)]
  /\ saveSettings
  /\ returned' = [op |-> "addRecentlyUsedFont", fontName |-> fontName]
  /\ UNCHANGED <<DEFAULT_TEMPLATES, DEFAULT_SETTINGS, sharedTemplates, now, exportVars,
                 storageVars>>

----------------------------------------------------------------------------
(* The settings of one service instance *)

TenFonts ==
  <<"Font 1", "Font 2", "Font 3", "Font 4", "Font 5", "Font 6", "Font 7", "Font 8",
    "Font 9", "Font 10">>

\* what plugin.loadData() resolves to: nothing stored, some settings, the data
\* setLastExportOptions wrote, a data file of an older version
SettingsDataInputs ==
  { EmptyObject,
    [defaultPageSize |-> "LETTER", recentlyUsedFonts |-> TenFonts],
    [lastExportOptions |-> [filename |-> "cv.pdf"]],
    [defaultPageSize |-> "LETTER", theme |-> "dark"] }

PartialSettingsInputs == { [defaultThemeColor |-> "#FF0000"] }

FontInputs == {"Arial", "Open Sans", "Font 10", "Font 4"}

NextSettings ==
  \/ \E data \in SettingsDataInputs : loadSettings(data)
  \/ \E partial \in PartialSettingsInputs : updateSettings(partial)
  \/ \E fontName \in FontInputs : addRecentlyUsedFont(fontName)
  \/ saveDataSettled

SpecSettings == Init /\ [][NextSettings]_vars

\* C24: loadSettings leaves every property of the settings at the stored value
\* when the stored object has it and at its default when not, and the settings
\* have no other property.
C24_LoadFillsDefaultsIgnoresUnknown ==
  [][\A data \in SettingsDataInputs :
       loadSettings(data) =>
         /\ \A key \in SettingsKeys :
              settings'[key] = IF key \in DOMAIN data THEN data[key]
                               ELSE DEFAULT_SETTINGS[key]
         /\ DOMAIN settings' \subseteq SettingsKeys]_vars

NoDuplicates(list) ==
  \A i, j \in 1..Len(list) : list[i] = list[j] => i = j

\* the position of a name in a list without duplicates
PositionIn(list, name) == CHOOSE i \in 1..Len(list) : list[i] = name

\* C25: addRecentlyUsedFont on a list of at most 10 distinct names leaves at most
\* 10 distinct names, the added name first, the other names in the order they
\* had, and drops only the last name of a full list.
C25_RecentFonts ==
  [][\A fontName \in FontInputs :
       (/\ addRecentlyUsedFont(fontName)
        /\ NoDuplicates(settings.recentlyUsedFonts)
        /\ Len(settings.recentlyUsedFonts) <= MAX_RECENT_FONTS) =>
         LET old == settings.recentlyUsedFonts
             new == settings'.recentlyUsedFonts
             names(list) == { list[i] : i \in 1..Len(list) }
         IN /\ Len(new) <= MAX_RECENT_FONTS
            /\ NoDuplicates(new)
            /\ new[1] = fontName
            /\ names(new) \subseteq names(old) \cup {fontName}
            /\ \A i, j \in 2..Len(new) :
                 i < j => PositionIn(old, new[i]) < PositionIn(old, new[j])
            /\ names(old) \ names(new) \subseteq
                 (IF Len(old) = MAX_RECENT_FONTS /\ fontName \notin names(old)
                    THEN {old[Len(old)]} ELSE {})]_vars

\* a new name has been added to a full list: it is first and "Font 10" is gone
C25_Witness ==
  /\ returned.op = "addRecentlyUsedFont"
  /\ returned.fontName = "Arial"
  /\ settings.recentlyUsedFonts = <<"Arial">> \o SubSeq(TenFonts, 1, 9)

----------------------------------------------------------------------------
(* One editing session: edits, saves, the vault and the renderer settling *)

SessionTexts == {"# CV", "# CV\n\nedited"}

NextSession ==
  \/ \E value \in SessionTexts : CVEditorView_handleEditorChange(value)
  \/ CVEditorView_saveDocument
  \/ \E i \in 1..Len(vaultCalls), fails \in BOOLEAN : vaultSettles(i, fails)
  \/ \E i \in 1..Len(rendering) : rendererResolves(i)

SpecSession == InitSession /\ [][NextSession]_vars

\* C26: while the session shows no unsaved changes, the file of its document
\* holds the text of the editor.
C26_SavedMeansPersisted ==
  (currentDocument # Null /\ ~unsavedChanges) =>
    \A loaded \in {LoadCV(vault, currentDocument.path, FALSE)} :
      /\ loaded.outcome = "resolved"
      /\ loaded.value.content = Trim(editorValue)

----------------------------------------------------------------------------
(* Overlapping renders of the preview *)

\* the children of the preview after one render of text into the emptied preview
RenderedOnce(text) ==
  postProcessRenderedContent(
    [dom[previewEl] EXCEPT
       !.text = "",
       !.kids = MarkdownRenderer_renderMarkdown(PreprocessMarkdown(text))]).kids

\* C27: when no render is pending and the preview shows no render error, the
\* preview holds one rendering of the text the editor holds.
C27_OneRenderingOfLatest ==
  (rendering = << >> /\ ~ShowsRenderError(dom[previewEl])) =>
    dom[previewEl].kids = RenderedOnce(editorValue)

----------------------------------------------------------------------------
(* The data file under settings changes and stored export options *)

SettingsService_setLastExportOptions(options) ==
  /\ pendingSaves < MaxPending
  /\ setLastExportOptions(options)
  /\ returned' = [op |-> "setLastExportOptions"]
  /\ UNCHANGED <<DEFAULT_TEMPLATES, DEFAULT_SETTINGS, settings, sharedTemplates, now, dom,
                 currentDocument, rasterizing, exportResult, rendering, storageVars>>

\* loadSettings() once every save has completed: plugin.loadData() resolves to
\* the content of the data file
loadStoredSettings ==
  /\ pendingSaves = 0
  /\ loadSettings(IF savedData = Null THEN EmptyObject ELSE savedData)

NextPersist ==
  \/ \E partial \in PartialSettingsInputs : updateSettings(partial)
  \/ \E template \in AddInputs : addTemplate(template)
  \/ \E id \in {"custom-template"} : deleteTemplate(id)
  \/ \E fontName \in {"Arial"} : addRecentlyUsedFont(fontName)
  \/ \E options \in DialogOptions : SettingsService_setLastExportOptions(options)
  \/ saveDataSettled
  \/ loadStoredSettings

SpecPersist == Init /\ [][NextPersist]_vars

\* C28: once every save has completed, the data file restores the settings in
\* memory, user templates included, and holds the export options last stored.
C28_StoreHoldsSettingsAndExportOptions ==
  (pendingSaves = 0 /\ savedData # Null) =>
    /\ \A key \in SettingsKeys : Spread(DEFAULT_SETTINGS, savedData)[key] = settings[key]
    /\ lastExportOptions # Undefined =>
         /\ "lastExportOptions" \in DOMAIN savedData
         /\ savedData.lastExportOptions = lastExportOptions

\* C29: DEFAULT_SETTINGS, and with it the settings a newly constructed service
\* starts from, stay as the module exports them.
C29_DefaultsIsolated == DEFAULT_SETTINGS = InitialDefaultSettings

----------------------------------------------------------------------------
(* Renaming over a vault that may fail *)

RenameTitles == StorageTitles \cup {"CV 2"}

RenamePaths == { CVPath(DEFAULT_CV_FOLDER, title) : title \in RenameTitles }

NextRename ==
  \/ \E fails \in BOOLEAN :
       /\ vaultCalls = << >>
       /\ StorageService_createCV("a/b", "# CV 2", EmptyObject, fails)
  \/ \E oldPath \in RenamePaths, newTitle \in RenameTitles, readFails \in BOOLEAN :
       /\ vaultCalls = << >>      \* one rename at a time
       /\ StorageService_renameCV(oldPath, newTitle, readFails)
  \/ \E i \in 1..Len(vaultCalls), fails \in BOOLEAN : vaultSettles(i, fails)

SpecRename == InitSession /\ [][NextRename]_vars

\* the content of the document in a file
ContentAt(files, path) == LoadCV(files, path, FALSE).value.content

\* the contents of the documents under the old and the new path of a rename
ContentsAt(files, paths) ==
  { loaded.value.content :
      loaded \in { settled \in { LoadCV(files, path, FALSE) :
                                   path \in paths \cap DOMAIN files } :
                     settled.outcome = "resolved" } }

\* C30: no step of renameCV, failing or not, removes the content of the document
\* from both its old and its new path; after a rename has resolved the content
\* is under the new path and the old path is gone; a rename onto an existing
\* file is rejected and leaves every file as it was.
C30_RenameKeepsDocument ==
  [][returned'.op = "renameCV" =>
       /\ ContentsAt(vault, {returned'.oldPath}) \subseteq
            ContentsAt(vault', {returned'.oldPath, returned'.newPath})
       /\ returned'.outcome = "resolved" =>
            /\ returned'.oldPath \notin DOMAIN vault'
            /\ ContentsAt(vault', {returned'.newPath}) = {returned'.value.content}
       /\ (/\ vaultCalls' = vaultCalls \/ Len(vaultCalls') > Len(vaultCalls)
           /\ returned'.oldPath \in DOMAIN vault
           /\ returned'.newPath \in DOMAIN vault) =>
            (returned'.outcome = "rejected" /\ vault' = vault)]_vars

\* a rename has resolved: the document is under the new path only
C30_Witness ==
  /\ returned.op = "renameCV"
  /\ returned.outcome = "resolved"
  /\ returned.oldPath = MyCVPath
  /\ returned.newPath = CVPath(DEFAULT_CV_FOLDER, "a:b")
  /\ MyCVPath \notin DOMAIN vault
  /\ ContentAt(vault, returned.newPath) = "# CV"

====
